---- MODULE Spec2Model ----
(***************************************************************************)
(* Frame-resource ring, dirty-counter propagation and layered draw         *)
(* submission of the two Direct3D 12 applications of the repository:       *)
(*   "castle" : MyCastleApp         (Game-3111_A1_Sha_taojin.cpp)          *)
(*   "tree"   : TreeBillboardsApp   (Week7-2-TreeBillboardsApp.cpp)        *)
(* The CPU timeline is the single thread running Initialize, then the      *)
(* Update/Draw loop, then the destructor; the GPU timeline consumes the    *)
(* command queue asynchronously.                                           *)
(***************************************************************************)
EXTENDS Integers, Sequences, FiniteSets, TLC

\* const int gNumFrameResources = 3;
gNumFrameResources == 3

\* Model bounds: frames submitted per run, transform edits per run, vertices
\* added to the generated shapes beyond one each, wave grid rows and columns,
\* mouse messages per run.
MaxFrames == 4
MaxEdits == 1
MaxExtraVerts == 2
MaxWaveDim == 3
MaxMouseMsgs == 4

\* The magnitude of the coordinates read from a POINT that was never written.
GarbageCoord == 30000

VARIABLES
    app,                      \* which application object runs
    pc,                       \* position of the CPU thread
    md3dDevice,               \* TRUE when the device exists (non-null)
    mAllRitems,               \* std::vector<std::unique_ptr<RenderItem>>
    mRitemLayer,              \* per-layer lists of RenderItem* (item names)
    mMaterials,               \* name -> Material
    mFrameResources,          \* index -> FrameResource
    mCurrFrameResource,       \* FrameResource* : nullptr or the index pointed to
    mCurrFrameResourceIndex,
    mCurrentFence,            \* last fence value handed out by the CPU
    mFence,                   \* ID3D12Fence completed value (GPU side)
    gpuQueue,                 \* command queue: work not yet retired by the GPU
    waterGeoVB,               \* mGeometries["waterGeo"]->VertexBufferGPU
    mCommandList,             \* draw calls recorded by the latest Draw
    mWaves,                   \* wave simulation: number of Update steps taken
    meshData,                 \* output of the GeometryGenerator calls and the wave grid size
    mGeometries,              \* name -> MeshGeometry
    mTimer,                   \* GameTimer: total and delta time, milliseconds
    t_base,                   \* static float t_base of UpdateWaves, milliseconds
    edits,                    \* transform edits made so far
    mTheta,                   \* camera azimuth, microradians
    mPhi,                     \* camera polar angle, microradians
    mRadius,                  \* camera distance, thousandths of a unit
    mLastMousePos,            \* POINT: where the mouse was at the last mouse message
    apiFailure,               \* the graphics-API call that returned a failed HRESULT, if any
    gpuHung,                  \* TRUE once the GPU has stopped retiring work
    mCbvHeap,                 \* app 1 descriptor heap: heap index -> constant buffer view
    mIsWireframe,             \* app 1: bool mIsWireframe
    hist                      \* history of the run, read by the properties only

vars == <<app, pc, md3dDevice, mAllRitems, mRitemLayer, mMaterials,
          mFrameResources, mCurrFrameResource, mCurrFrameResourceIndex,
          mCurrentFence, mFence, gpuQueue, waterGeoVB, mCommandList, mWaves,
          meshData, mGeometries, mTimer, t_base, edits, mTheta, mPhi, mRadius,
          mLastMousePos, apiFailure, gpuHung, mCbvHeap, mIsWireframe, hist>>

\* The orbit camera of the application object.
cam == <<mTheta, mPhi, mRadius, mLastMousePos>>

Slots == 0 .. (gNumFrameResources - 1)

\* A null FrameResource* or buffer handle; the others are the index of the frame
\* resource pointed to.
nullptr == -1

(***************************************************************************)
(* Matrices.  A 4x4 matrix is the set of its non-zero entries              *)
(* <<row, column, value>>; values are fixed point, Fx units to 1.0.        *)
(***************************************************************************)
Fx == 1000

Entry(M, r, c) ==
    IF \E e \in M : e[1] = r /\ e[2] = c
    THEN (CHOOSE e \in M : e[1] = r /\ e[2] = c)[3]
    ELSE 0

FromEntries(f) ==
    { <<r, c, f[<<r, c>>]>> : <<r, c>> \in { p \in (0..3) \X (0..3) : f[p] # 0 } }

Identity4x4 == { <<i, i, Fx>> : i \in 0..3 }

XMMatrixTranspose(M) == { <<e[2], e[1], e[3]>> : e \in M }

XMMatrixScaling(x, y, z) == { e \in { <<0, 0, x>>, <<1, 1, y>>, <<2, 2, z>>, <<3, 3, Fx>> } : e[3] # 0 }

XMMatrixTranslation(x, y, z) ==
    Identity4x4 \cup { e \in { <<3, 0, x>>, <<3, 1, y>>, <<3, 2, z>> } : e[3] # 0 }

XMMatrixMultiply(A, B) ==
    FromEntries([p \in (0..3) \X (0..3) |->
        ( Entry(A, p[1], 0) * Entry(B, 0, p[2])
        + Entry(A, p[1], 1) * Entry(B, 1, p[2])
        + Entry(A, p[1], 2) * Entry(B, 2, p[2])
        + Entry(A, p[1], 3) * Entry(B, 3, p[2]) ) \div Fx ])

(***************************************************************************)
(* Geometry catalog.                                                       *)
(***************************************************************************)
Range(f) == { f[x] : x \in DOMAIN f }

RECURSIVE ConcatAll(_)
ConcatAll(ss) == IF ss = <<>> THEN <<>> ELSE Head(ss) \o ConcatAll(Tail(ss))

CastleShapes ==
    <<"box", "grid", "sphere", "cylinder", "cone", "Pyramid_flat_head",
      "Pyramid_pointed_head", "wedge", "pointed_cylinder", "gate">>

TreeShapes ==
    <<"grid", "box", "sphere", "cylinder", "cone", "Pyramid_flat_head",
      "Pyramid_pointed_head", "wedge", "pointed_cylinder">>

\* GeometryGenerator::MeshData for a shape with nv vertices: every vertex carries
\* its own position, normal and texture coordinate; three indices per vertex,
\* each below nv, the first one being the largest.
CreateMesh(shape, nv) ==
    [ Vertices  |-> [ i \in 1..nv |-> [ Position |-> <<shape, "P", i - 1>>,
                                        Normal   |-> <<shape, "N", i - 1>>,
                                        TexC     |-> <<shape, "T", i - 1>> ] ],
      Indices32 |-> [ k \in 1..(3 * nv) |-> nv - 1 - ((k - 1) % nv) ] ]

\* MeshData::GetIndices16: each 32-bit index narrowed to std::uint16_t.
GetIndices16(mesh) == [ k \in DOMAIN mesh.Indices32 |-> mesh.Indices32[k] % 65536 ]

\* Waves::VertexCount and Waves::TriangleCount of an m x n grid.
Waves_VertexCount(w) == w.RowCount * w.ColumnCount
Waves_TriangleCount(w) == (w.RowCount - 1) * (w.ColumnCount - 1) * 2

Submesh(indexCount, startIndex, baseVertex) ==
    [ IndexCount |-> indexCount, StartIndexLocation |-> startIndex,
      BaseVertexLocation |-> baseVertex ]

NumV(md, s) == Len(md[s].Vertices)
NumI(md, s) == Len(md[s].Indices32)

\* std::vector<Vertex> vertices(total) filled from position 0 by the copy loops:
\* the loops' output cut to the vector's size.
FillVector(total, filled) ==
    IF Len(filled) <= total
    THEN filled \o [ i \in 1..(total - Len(filled)) |-> [ Zero |-> TRUE ] ]
    ELSE SubSeq(filled, 1, total)

\* vec[i] of a std::vector, i counted from 1 here; a read past the end is
\* undefined and yields junk.
ReadAt(vec, i, junk) == IF i <= Len(vec) THEN vec[i] ELSE junk

----------------------------------------------------------------------------
\* MyCastleApp::BuildShapeGeometry
Castle_TotalVertexCount_NoGate(md) ==
    NumV(md, "box") + NumV(md, "grid") + NumV(md, "sphere") + NumV(md, "cylinder")
    + NumV(md, "cone") + NumV(md, "Pyramid_flat_head") + NumV(md, "Pyramid_pointed_head")
    + NumV(md, "wedge") + NumV(md, "pointed_cylinder")

Castle_TotalVertexCount(md) ==
    NumV(md, "box") + NumV(md, "grid") + NumV(md, "sphere") + NumV(md, "cylinder")
    + NumV(md, "cone") + NumV(md, "Pyramid_flat_head") + NumV(md, "Pyramid_pointed_head")
    + NumV(md, "wedge") + NumV(md, "gate") + NumV(md, "pointed_cylinder")

Castle_CopyLoop(md, s, color) ==
    [ i \in 1..NumV(md, s) |-> [ Pos |-> md[s].Vertices[i].Position, Color |-> color ] ]

Castle_BuildShapeGeometry(md) ==
    LET boxVertexOffset == 0
        gridVertexOffset == NumV(md, "box")
        sphereVertexOffset == gridVertexOffset + NumV(md, "grid")
        cylinderVertexOffset == sphereVertexOffset + NumV(md, "sphere")
        coneVertexOffset == cylinderVertexOffset + NumV(md, "cylinder")
        Pyramid_flat_headVertexOffset == coneVertexOffset + NumV(md, "cone")
        Pyramid_pointed_headVertexOffset == Pyramid_flat_headVertexOffset + NumV(md, "Pyramid_flat_head")
        wedgeVertexOffset == Pyramid_pointed_headVertexOffset + NumV(md, "Pyramid_pointed_head")
        pointed_cylinderVertexOffset == wedgeVertexOffset + NumV(md, "wedge")
        gateVertexOffset == pointed_cylinderVertexOffset + NumV(md, "pointed_cylinder")
        boxIndexOffset == 0
        gridIndexOffset == NumI(md, "box")
        sphereIndexOffset == gridIndexOffset + NumI(md, "grid")
        cylinderIndexOffset == sphereIndexOffset + NumI(md, "sphere")
        coneIndexOffset == cylinderIndexOffset + NumI(md, "cylinder")
        Pyramid_flat_headIndexOffset == coneIndexOffset + NumI(md, "cone")
        Pyramid_pointed_headIndexOffset == Pyramid_flat_headIndexOffset + NumI(md, "Pyramid_flat_head")
        wedgeIndexOffset == Pyramid_pointed_headIndexOffset + NumI(md, "Pyramid_pointed_head")
        pointed_cylinderIndexOffset == wedgeIndexOffset + NumI(md, "wedge")
        gateIndexOffset == pointed_cylinderIndexOffset + NumI(md, "pointed_cylinder")
        vertices == FillVector(Castle_TotalVertexCount(md),
            Castle_CopyLoop(md, "box", "Gray") \o Castle_CopyLoop(md, "grid", "ForestGreen")
            \o Castle_CopyLoop(md, "sphere", "Crimson") \o Castle_CopyLoop(md, "cylinder", "SteelBlue")
            \o Castle_CopyLoop(md, "cone", "Gold") \o Castle_CopyLoop(md, "Pyramid_flat_head", "Red")
            \o Castle_CopyLoop(md, "Pyramid_pointed_head", "Tan") \o Castle_CopyLoop(md, "wedge", "Chocolate")
            \o Castle_CopyLoop(md, "pointed_cylinder", "Pink") \o Castle_CopyLoop(md, "gate", "Cyan"))
        indices ==
            GetIndices16(md["box"]) \o GetIndices16(md["grid"]) \o GetIndices16(md["sphere"])
            \o GetIndices16(md["cylinder"]) \o GetIndices16(md["cone"])
            \o GetIndices16(md["Pyramid_flat_head"]) \o GetIndices16(md["Pyramid_pointed_head"])
            \o GetIndices16(md["wedge"]) \o GetIndices16(md["pointed_cylinder"])
            \o GetIndices16(md["gate"])
    IN  [ Name |-> "shapeGeo",
          VertexBufferCPU |-> vertices,
          VertexCount |-> Len(vertices),
          IndexBufferCPU |-> indices,
          DrawArgs |->
            [ box |-> Submesh(NumI(md, "box"), boxIndexOffset, boxVertexOffset),
              grid |-> Submesh(NumI(md, "grid"), gridIndexOffset, gridVertexOffset),
              sphere |-> Submesh(NumI(md, "sphere"), sphereIndexOffset, sphereVertexOffset),
              cylinder |-> Submesh(NumI(md, "cylinder"), cylinderIndexOffset, cylinderVertexOffset),
              cone |-> Submesh(NumI(md, "cone"), coneIndexOffset, coneVertexOffset),
              Pyramid_flat_head |-> Submesh(NumI(md, "Pyramid_flat_head"),
                                            Pyramid_flat_headIndexOffset, Pyramid_flat_headVertexOffset),
              Pyramid_pointed_head |-> Submesh(NumI(md, "Pyramid_pointed_head"),
                                               Pyramid_pointed_headIndexOffset, Pyramid_pointed_headVertexOffset),
              wedge |-> Submesh(NumI(md, "wedge"), wedgeIndexOffset, wedgeVertexOffset),
              pointed_cylinder |-> Submesh(NumI(md, "pointed_cylinder"),
                                           pointed_cylinderIndexOffset, pointed_cylinderVertexOffset),
              gate |-> Submesh(NumI(md, "gate"), gateIndexOffset, gateVertexOffset) ] ]

----------------------------------------------------------------------------
\* TreeBillboardsApp::BuildLandGeometry
Tree_BuildLandGeometry(md) ==
    LET grid == md["grid"]
        vertices == [ i \in 1..Len(grid.Vertices) |->
                        [ Pos    |-> <<grid.Vertices[i].Position, "y=0.5">>,
                          Normal |-> <<"GetHillsNormal", grid.Vertices[i].Position>>,
                          TexC   |-> grid.Vertices[i].TexC ] ]
        indices == GetIndices16(grid)
    IN  [ Name |-> "landGeo",
          VertexBufferCPU |-> vertices,
          VertexCount |-> Len(vertices),
          IndexBufferCPU |-> indices,
          DrawArgs |-> [ grid |-> Submesh(Len(indices), 0, 0) ] ]

\* The index written at 0-based position p of the wave index buffer by the
\* quad loop: quad q = i * (n - 1) + j occupies positions 6q .. 6q + 5.
Tree_WaveIndexAt(m, n, p) ==
    LET q == p \div 6
        i == q \div (n - 1)
        j == q % (n - 1)
        r == p % 6
    IN  IF q >= (m - 1) * (n - 1) THEN 0
        ELSE (CASE r = 0 -> i * n + j
                [] r = 1 -> i * n + j + 1
                [] r = 2 -> (i + 1) * n + j
                [] r = 3 -> (i + 1) * n + j
                [] r = 4 -> i * n + j + 1
                [] OTHER -> (i + 1) * n + j + 1) % 65536

\* TreeBillboardsApp::BuildWavesGeometry
Tree_BuildWavesGeometry(w) ==
    LET m == w.RowCount
        n == w.ColumnCount
        indices == [ k \in 1..(3 * Waves_TriangleCount(w)) |-> Tree_WaveIndexAt(m, n, k - 1) ]
    IN  [ Name |-> "waterGeo",
          VertexBufferCPU |-> <<>>,
          VertexCount |-> Waves_VertexCount(w),
          IndexBufferCPU |-> indices,
          DrawArgs |-> [ grid |-> Submesh(Len(indices), 0, 0) ] ]

\* One copy loop of BuildBoxGeometry: position from shape s, normal and texture
\* coordinate from shape t (the loop bound is the size of s).
Tree_CopyLoop(md, s, t, junk) ==
    [ i \in 1..NumV(md, s) |->
        [ Pos    |-> md[s].Vertices[i].Position,
          Normal |-> ReadAt(md[t].Vertices, i, junk).Normal,
          TexC   |-> ReadAt(md[t].Vertices, i, junk).TexC ] ]

Tree_TotalVertexCount(md) ==
    NumV(md, "box") + NumV(md, "sphere") + NumV(md, "cylinder") + NumV(md, "cone")
    + NumV(md, "Pyramid_flat_head") + NumV(md, "Pyramid_pointed_head")
    + NumV(md, "wedge") + NumV(md, "pointed_cylinder")

\* TreeBillboardsApp::BuildBoxGeometry
Tree_BuildBoxGeometry(md, junk) ==
    LET boxVertexOffset == 0
        sphereVertexOffset == boxVertexOffset + NumV(md, "box")
        cylinderVertexOffset == sphereVertexOffset + NumV(md, "sphere")
        coneVertexOffset == cylinderVertexOffset + NumV(md, "cylinder")
        Pyramid_flat_headVertexOffset == coneVertexOffset + NumV(md, "cone")
        Pyramid_pointed_headVertexOffset == Pyramid_flat_headVertexOffset + NumV(md, "Pyramid_flat_head")
        wedgeVertexOffset == Pyramid_pointed_headVertexOffset + NumV(md, "Pyramid_pointed_head")
        pointed_cylinderVertexOffset == wedgeVertexOffset + NumV(md, "wedge")
        boxIndexOffset == 0
        sphereIndexOffset == boxIndexOffset + NumI(md, "box")
        cylinderIndexOffset == sphereIndexOffset + NumI(md, "sphere")
        coneIndexOffset == cylinderIndexOffset + NumI(md, "cylinder")
        Pyramid_flat_headIndexOffset == coneIndexOffset + NumI(md, "cone")
        Pyramid_pointed_headIndexOffset == Pyramid_flat_headIndexOffset + NumI(md, "Pyramid_flat_head")
        wedgeIndexOffset == Pyramid_pointed_headIndexOffset + NumI(md, "Pyramid_pointed_head")
        pointed_cylinderIndexOffset == wedgeIndexOffset + NumI(md, "wedge")
        vertices == FillVector(Tree_TotalVertexCount(md),
            Tree_CopyLoop(md, "box", "box", junk) \o Tree_CopyLoop(md, "sphere", "sphere", junk)
            \o Tree_CopyLoop(md, "cylinder", "cylinder", junk) \o Tree_CopyLoop(md, "cone", "cone", junk)
            \o Tree_CopyLoop(md, "wedge", "wedge", junk)
            \o Tree_CopyLoop(md, "Pyramid_flat_head", "Pyramid_flat_head", junk)
            \o Tree_CopyLoop(md, "Pyramid_pointed_head", "Pyramid_flat_head", junk)
            \o Tree_CopyLoop(md, "pointed_cylinder", "pointed_cylinder", junk))
        indices ==
            GetIndices16(md["box"]) \o GetIndices16(md["sphere"]) \o GetIndices16(md["cylinder"])
            \o GetIndices16(md["cone"]) \o GetIndices16(md["Pyramid_flat_head"])
            \o GetIndices16(md["Pyramid_pointed_head"]) \o GetIndices16(md["wedge"])
            \o GetIndices16(md["pointed_cylinder"])
    IN  [ Name |-> "boxGeo",
          VertexBufferCPU |-> vertices,
          VertexCount |-> Len(vertices),
          IndexBufferCPU |-> indices,
          DrawArgs |->
            [ box |-> Submesh(NumI(md, "box"), boxIndexOffset, boxVertexOffset),
              sphere |-> Submesh(NumI(md, "sphere"), sphereIndexOffset, sphereVertexOffset),
              cylinder |-> Submesh(NumI(md, "cylinder"), cylinderIndexOffset, cylinderVertexOffset),
              cone |-> Submesh(NumI(md, "cone"), coneIndexOffset, coneVertexOffset),
              Pyramid_flat_head |-> Submesh(NumI(md, "Pyramid_flat_head"),
                                            Pyramid_flat_headIndexOffset, Pyramid_flat_headVertexOffset),
              Pyramid_pointed_head |-> Submesh(NumI(md, "Pyramid_pointed_head"),
                                               Pyramid_pointed_headIndexOffset, Pyramid_pointed_headVertexOffset),
              wedge |-> Submesh(NumI(md, "wedge"), wedgeIndexOffset, wedgeVertexOffset),
              pointed_cylinder |-> Submesh(NumI(md, "pointed_cylinder"),
                                           pointed_cylinderIndexOffset, pointed_cylinderVertexOffset) ] ]

\* static const int treeCount = 20;
treeCount == 20

\* TreeBillboardsApp::BuildTreeSpritesGeometry
Tree_BuildTreeSpritesGeometry ==
    LET vertices == [ i \in 1..20 |->
                        [ Pos  |-> <<"tree", i - 1, IF i - 1 <= 10 THEN "z" ELSE "-z">>,
                          Size |-> <<20, 20>> ] ]
        written == { i \in 0..(treeCount - 1) : i <= 10 \/ (10 < i /\ i <= 20) }
        indices == [ k \in 1..20 |-> k - 1 ]
    IN  [ Name |-> "treeSpritesGeo",
          VertexBufferCPU |-> [ i \in 1..20 |-> IF (i - 1) \in written THEN vertices[i] ELSE [ Uninit |-> TRUE ] ],
          VertexCount |-> Len(vertices),
          IndexBufferCPU |-> indices,
          DrawArgs |-> [ points |-> Submesh(Len(indices), 0, 0) ] ]

(***************************************************************************)
(* Materials, render items and frame resources.                            *)
(***************************************************************************)
\* struct Material: MatTransform starts as the identity and NumFramesDirty as
\* gNumFrameResources.
Material(name, i, alpha, roughness) ==
    [ Name |-> name, MatCBIndex |-> i, DiffuseSrvHeapIndex |-> i,
      DiffuseAlbedo |-> <<Fx, Fx, Fx, alpha>>, Roughness |-> roughness,
      MatTransform |-> Identity4x4, NumFramesDirty |-> gNumFrameResources ]

\* TreeBillboardsApp::BuildMaterials
Tree_BuildMaterials ==
    [ grass       |-> Material("grass", 0, Fx, 125),
      water       |-> Material("water", 1, 500, 0),
      wirefence   |-> Material("wirefence", 2, Fx, 250),
      ice         |-> Material("ice", 3, Fx, 200),
      bricks      |-> Material("bricks", 4, Fx, 200),
      testcolor   |-> Material("testcolor", 5, Fx, 200),
      door        |-> Material("door", 6, Fx, 200),
      walls       |-> Material("walls", 7, Fx, 200),
      checkboard  |-> Material("checkboard", 8, Fx, 200),
      treeSprites |-> Material("treeSprites", 9, Fx, 125) ]

\* struct RenderItem (MyCastleApp): NumFramesDirty starts as gNumFrameResources.
Castle_RenderItem(name, world, objIndex, geos, geo, submesh) ==
    [ Name |-> name, World |-> world, NumFramesDirty |-> gNumFrameResources,
      ObjCBIndex |-> objIndex, Geo |-> geo,
      PrimitiveType |-> "TRIANGLELIST",
      IndexCount |-> geos[geo].DrawArgs[submesh].IndexCount,
      StartIndexLocation |-> geos[geo].DrawArgs[submesh].StartIndexLocation,
      BaseVertexLocation |-> geos[geo].DrawArgs[submesh].BaseVertexLocation ]

\* struct RenderItem (TreeBillboardsApp)
Tree_RenderItem_Clean(name, world, tex, objIndex, mat, geos, geo, submesh, topology) ==
    [ Name |-> name, World |-> world, TexTransform |-> tex,
      NumFramesDirty |-> 0,
      ObjCBIndex |-> objIndex, Mat |-> mat, Geo |-> geo,
      PrimitiveType |-> topology,
      IndexCount |-> geos[geo].DrawArgs[submesh].IndexCount,
      StartIndexLocation |-> geos[geo].DrawArgs[submesh].StartIndexLocation,
      BaseVertexLocation |-> geos[geo].DrawArgs[submesh].BaseVertexLocation ]

Tree_RenderItem(name, world, tex, objIndex, mat, geos, geo, submesh, topology) ==
    [ Name |-> name, World |-> world, TexTransform |-> tex,
      NumFramesDirty |-> gNumFrameResources,
      ObjCBIndex |-> objIndex, Mat |-> mat, Geo |-> geo,
      PrimitiveType |-> topology,
      IndexCount |-> geos[geo].DrawArgs[submesh].IndexCount,
      StartIndexLocation |-> geos[geo].DrawArgs[submesh].StartIndexLocation,
      BaseVertexLocation |-> geos[geo].DrawArgs[submesh].BaseVertexLocation ]

\* MyCastleApp::BuildRenderItems.  Of the castle parts the ground, the first
\* tower base and the gate are kept; objIndex++ numbers the items created.
Castle_BuildRenderItems(geos) ==
    LET gridRitem == Castle_RenderItem("gridRitem", Identity4x4, 0, geos, "shapeGeo", "grid")
        tower_base == Castle_RenderItem("tower_base",
                         XMMatrixMultiply(XMMatrixScaling(2 * Fx, 2 * Fx, 2 * Fx),
                                          XMMatrixTranslation(7 * Fx, 2 * Fx, 7 * Fx)),
                         1, geos, "shapeGeo", "cylinder")
        gate == Castle_RenderItem("gate",
                         XMMatrixMultiply(XMMatrixScaling(4 * Fx, 2 * Fx, 2 * Fx),
                                          XMMatrixTranslation(0, Fx, 7 * Fx)),
                         2, geos, "shapeGeo", "gate")
        all == <<gridRitem, tower_base, gate>>
    IN  [ mAllRitems |-> all,
          mRitemLayer |-> [ Opaque |-> [ k \in DOMAIN all |-> all[k].Name ] ] ]

\* TreeBillboardsApp::BuildRenderItems.  Of the AlphaTested castle parts the first
\* tower base and the gate are kept; objIndex++ numbers the items created, and
\* the items are moved into mAllRitems in the order of the push_back calls.
Tree_BuildRenderItems_GateUnlisted(geos) ==
    LET wavesRitem == Tree_RenderItem("wavesRitem", Identity4x4, XMMatrixScaling(5 * Fx, 5 * Fx, Fx),
                         0, "water", geos, "waterGeo", "grid", "TRIANGLELIST")
        gridRitem == Tree_RenderItem("gridRitem", Identity4x4,
                         XMMatrixMultiply(XMMatrixScaling(5 * Fx, 5 * Fx, Fx),
                                          XMMatrixTranslation(500, 500, 500)),
                         1, "grass", geos, "landGeo", "grid", "TRIANGLELIST")
        tower_base == Tree_RenderItem("tower_base",
                         XMMatrixMultiply(XMMatrixScaling(10 * Fx, 10 * Fx, 10 * Fx),
                                          XMMatrixTranslation(30 * Fx, 5 * Fx, 30 * Fx)),
                         Identity4x4, 2, "bricks", geos, "boxGeo", "cylinder", "TRIANGLELIST")
        gateRitem == Tree_RenderItem("gateRitem",
                         XMMatrixMultiply(XMMatrixScaling(6 * Fx, 10 * Fx, 15 * Fx),
                                          XMMatrixTranslation(30 * Fx, 5 * Fx, 0)),
                         Identity4x4, 3, "door", geos, "boxGeo", "box", "TRIANGLELIST")
        treeSpritesRitem == Tree_RenderItem("treeSpritesRitem", Identity4x4, Identity4x4,
                         4, "treeSprites", geos, "treeSpritesGeo", "points", "POINTLIST")
    IN  [ mAllRitems |-> <<tower_base, wavesRitem, gridRitem, gateRitem, treeSpritesRitem>>,
          mRitemLayer |->
            [ Opaque |-> <<"gridRitem">>,
              Transparent |-> <<"wavesRitem">>,
              AlphaTested |-> <<"tower_base">>,
              AlphaTestedTreeSprites |-> <<"treeSpritesRitem">> ] ]

Tree_BuildRenderItems(geos) ==
    LET wavesRitem == Tree_RenderItem("wavesRitem", Identity4x4, XMMatrixScaling(5 * Fx, 5 * Fx, Fx),
                         0, "water", geos, "waterGeo", "grid", "TRIANGLELIST")
        gridRitem == Tree_RenderItem("gridRitem", Identity4x4,
                         XMMatrixMultiply(XMMatrixScaling(5 * Fx, 5 * Fx, Fx),
                                          XMMatrixTranslation(500, 500, 500)),
                         1, "grass", geos, "landGeo", "grid", "TRIANGLELIST")
        tower_base == Tree_RenderItem("tower_base",
                         XMMatrixMultiply(XMMatrixScaling(10 * Fx, 10 * Fx, 10 * Fx),
                                          XMMatrixTranslation(30 * Fx, 5 * Fx, 30 * Fx)),
                         Identity4x4, 2, "bricks", geos, "boxGeo", "cylinder", "TRIANGLELIST")
        gateRitem == Tree_RenderItem("gateRitem",
                         XMMatrixMultiply(XMMatrixScaling(6 * Fx, 10 * Fx, 15 * Fx),
                                          XMMatrixTranslation(30 * Fx, 5 * Fx, 0)),
                         Identity4x4, 3, "door", geos, "boxGeo", "box", "TRIANGLELIST")
        treeSpritesRitem == Tree_RenderItem("treeSpritesRitem", Identity4x4, Identity4x4,
                         4, "treeSprites", geos, "treeSpritesGeo", "points", "POINTLIST")
    IN  [ mAllRitems |-> <<tower_base, wavesRitem, gridRitem, gateRitem, treeSpritesRitem>>,
          mRitemLayer |->
            [ Opaque |-> <<"gridRitem">>,
              Transparent |-> <<"wavesRitem">>,
              AlphaTested |-> <<"tower_base", "gateRitem">>,
              AlphaTestedTreeSprites |-> <<"treeSpritesRitem">> ] ]

\* Mapped upload-buffer memory that CopyData has not yet written.
Unwritten == [ Unwritten |-> TRUE ]

\* FrameResource::FrameResource: upload buffers of the given element counts,
\* their mapped memory not yet written, and Fence = 0.
FrameResource(objectCount, materialCount, waveVertCount) ==
    [ Fence |-> 0,
      PassCB |-> Unwritten,
      ObjectCB |-> [ i \in 0..(objectCount - 1) |-> Unwritten ],
      MaterialCB |-> [ i \in 0..(materialCount - 1) |-> Unwritten ],
      WavesVB |-> [ i \in 0..(waveVertCount - 1) |-> Unwritten ] ]

\* MyCastleApp::BuildFrameResources
Castle_BuildFrameResources(items) ==
    [ f \in Slots |-> FrameResource(Len(items), 0, 0) ]

\* MyCastleApp::BuildDescriptorHeaps: (objCount + 1) * gNumFrameResources
\* descriptors, none of them holding a view yet; mPassCbvOffset.
Castle_PassCbvOffset(objCount) == objCount * gNumFrameResources

Castle_BuildDescriptorHeaps(objCount) ==
    [ h \in 0..((objCount + 1) * gNumFrameResources - 1) |-> Unwritten ]

\* int heapIndex = frameIndex * objCount + i with the frame and the element
\* exchanged.
Castle_ObjHeapIndex_Interleaved(frameIndex, objCount, i) == i * gNumFrameResources + frameIndex

\* int heapIndex = frameIndex * objCount + i;
Castle_ObjHeapIndex(frameIndex, objCount, i) == frameIndex * objCount + i

\* CreateConstantBufferView calls made one after the other: each writes the view
\* at its heap index, over whatever an earlier call wrote there.
RECURSIVE CreateConstantBufferViews(_, _)
CreateConstantBufferViews(heap, calls) ==
    IF calls = <<>> THEN heap
    ELSE CreateConstantBufferViews(
            [ heap EXCEPT ![Head(calls).heapIndex] = Head(calls).view ], Tail(calls))

\* MyCastleApp::BuildConstantBufferViews: the object loop over frameIndex and i,
\* then the pass loop over frameIndex.
Castle_BuildConstantBufferViews(heap, objCount) ==
    LET objCalls == [ n \in 1..(gNumFrameResources * objCount) |->
                        LET frameIndex == (n - 1) \div objCount
                            i == (n - 1) % objCount
                        IN  [ heapIndex |-> Castle_ObjHeapIndex(frameIndex, objCount, i),
                              view |-> [ Buffer |-> "ObjectCB", Frame |-> frameIndex,
                                         Element |-> i ] ] ]
        passCalls == [ n \in 1..gNumFrameResources |->
                        [ heapIndex |-> Castle_PassCbvOffset(objCount) + (n - 1),
                          view |-> [ Buffer |-> "PassCB", Frame |-> n - 1, Element |-> 0 ] ] ]
    IN  CreateConstantBufferViews(heap, objCalls \o passCalls)

\* The material array sized with the item count, the object array with the
\* material count (the two size arguments exchanged).
Tree_BuildFrameResources_Swapped(items, mats, w) ==
    [ f \in Slots |->
        FrameResource(Cardinality(DOMAIN mats), Len(items), Waves_VertexCount(w)) ]

\* TreeBillboardsApp::BuildFrameResources
Tree_BuildFrameResources(items, mats, w) ==
    [ f \in Slots |-> FrameResource(Len(items), Cardinality(DOMAIN mats), Waves_VertexCount(w)) ]

(***************************************************************************)
(* Inputs and the state after construction.                                *)
(***************************************************************************)
\* The sizes the generated shapes may have: one vertex each plus at most
\* `extra` vertices more, spread over the n shapes.
RECURSIVE SizeVectors(_, _)
SizeVectors(n, extra) ==
    IF n = 0 THEN { <<>> }
    ELSE UNION { { <<1 + x>> \o v : v \in SizeVectors(n - 1, extra - x) } : x \in 0..extra }

ShapesOf(a) == IF a = "castle" THEN CastleShapes ELSE TreeShapes

MeshDataOf(a, sizes, m, n) ==
    [ shapes |-> [ s \in Range(ShapesOf(a)) |->
                     CreateMesh(s, sizes[CHOOSE k \in DOMAIN ShapesOf(a) : ShapesOf(a)[k] = s]) ],
      waves  |-> [ RowCount |-> m, ColumnCount |-> n ] ]

\* The sizes used by the frame loop: shapes of one and two vertices alternating,
\* a 2 x 2 wave grid.
DefaultMeshData(a) ==
    MeshDataOf(a, [ k \in DOMAIN ShapesOf(a) |-> 1 + (k % 2) ], 2, 2)

\* What an out-of-range read of a vertex array may yield.
JunkVertices ==
    { [ Position |-> <<"junk", "P", j>>, Normal |-> <<"junk", "N", j>>, TexC |-> <<"junk", "T", j>> ]
        : j \in 0..1 }

\* float dt of one frame, milliseconds.
DeltaTimes == { 250 }

\* Angles are held in microradians.
AngleFx == 1000000

\* XM_PI, MathHelper::Pi
Pi == 3141593

\* The value of a member no constructor has written.
Indeterminate == [ Indeterminate |-> TRUE ]

\* No mouse message has been handled yet.
NoMouseMsg ==
    [ n |-> 0, kind |-> "none", btnState |-> {}, dx |-> 0, dy |-> 0,
      mTheta |-> 0, mPhi |-> 0, mRadius |-> 0 ]

InitHist ==
    [ objAge |-> <<>>, objSnap |-> <<>>, objCopies |-> <<>>, objSel |-> <<>>,
      matAge |-> <<>>, vb |-> <<>>, updated |-> <<>>, drawn |-> <<>>, mouse |-> NoMouseMsg,
      hungAt |-> -1, poll |-> <<>>,
      tick |-> [ objDirty |-> <<>>, objCopied |-> {}, matDirty |-> <<>>, matCopied |-> {} ] ]

InitCommon ==
    /\ pc = "constructed"
    /\ md3dDevice = FALSE
    /\ mAllRitems = <<>>
    /\ mRitemLayer = <<>>
    /\ mMaterials = <<>>
    /\ mFrameResources = <<>>
    /\ mCurrFrameResource = nullptr
    /\ mCurrFrameResourceIndex = 0
    /\ mCurrentFence = 0
    /\ mFence = 0
    /\ gpuQueue = <<>>
    /\ waterGeoVB = nullptr
    /\ mCommandList = <<>>
    /\ mWaves = "nullptr"
    /\ mGeometries = <<>>
    /\ mTimer = [ TotalTime |-> 0, DeltaTime |-> 0 ]
    /\ t_base = 0
    /\ edits = 0
    /\ mTheta = (3 * Pi) \div 2
    /\ mPhi = IF app = "castle" THEN Pi \div 5 ELSE Pi \div 2 - AngleFx \div 10
    /\ mRadius = IF app = "castle" THEN 15 * Fx ELSE 50 * Fx
    /\ mLastMousePos = Indeterminate
    /\ apiFailure = "none"
    /\ gpuHung = FALSE
    /\ mCbvHeap = <<>>
    /\ mIsWireframe = FALSE
    /\ hist = InitHist

Init ==
    /\ app \in { "castle", "tree" }
    /\ meshData = DefaultMeshData(app)
    /\ InitCommon

(***************************************************************************)
(* Initialize.                                                             *)
(***************************************************************************)
\* std::make_unique<Waves>(rows, columns, ...) : no step taken, nothing disturbed.
Waves(m, n) == [ RowCount |-> m, ColumnCount |-> n, Steps |-> 0, Disturbs |-> 0 ]

HistAfterBuild(items, mats, frs) ==
    [ objAge    |-> [ k \in DOMAIN items |-> 0 ],
      objSnap   |-> [ k \in DOMAIN items |-> [ f \in Slots |-> frs[f].ObjectCB[items[k].ObjCBIndex] ] ],
      objCopies |-> [ k \in DOMAIN items |-> [ f \in Slots |-> 0 ] ],
      objSel    |-> [ k \in DOMAIN items |-> {} ],
      matAge    |-> [ m \in DOMAIN mats |-> 0 ],
      vb        |-> <<>>,
      updated   |-> <<>>,
      drawn     |-> <<>>,
      hungAt    |-> -1,
      poll      |-> <<>>,
      mouse     |-> NoMouseMsg,
      tick      |-> [ objDirty |-> <<>>, objCopied |-> {}, matDirty |-> <<>>, matCopied |-> {} ] ]

\* MyCastleApp::Initialize.  baseOk is the result of D3DApp::Initialize; device is
\* whether the device was created when it failed.
Castle_Initialize ==
    /\ pc = "constructed"
    /\ app = "castle"
    /\ \E baseOk \in BOOLEAN, device \in BOOLEAN :
         IF baseOk
         THEN LET geos == [ shapeGeo |-> Castle_BuildShapeGeometry(meshData.shapes) ]
                  built == Castle_BuildRenderItems(geos)
                  frs == Castle_BuildFrameResources(built.mAllRitems)
              IN  /\ device
                  /\ md3dDevice' = TRUE
                  /\ mGeometries' = geos
                  /\ mAllRitems' = built.mAllRitems
                  /\ mRitemLayer' = built.mRitemLayer
                  /\ mFrameResources' = frs
                  /\ mCbvHeap' = Castle_BuildConstantBufferViews(
                                     Castle_BuildDescriptorHeaps(Len(built.mRitemLayer.Opaque)),
                                     Len(built.mRitemLayer.Opaque))
                  /\ hist' = HistAfterBuild(built.mAllRitems, <<>>, frs)
                  /\ pc' = "idle"
         ELSE /\ md3dDevice' = device
              /\ pc' = "exit"
              /\ UNCHANGED <<mGeometries, mAllRitems, mRitemLayer, mFrameResources,
                             mCbvHeap, hist>>
    /\ UNCHANGED <<cam, apiFailure, gpuHung, mIsWireframe,
                   app, mMaterials, mCurrFrameResource, mCurrFrameResourceIndex,
                   mCurrentFence, mFence, gpuQueue, waterGeoVB, mCommandList, mWaves,
                   meshData, mTimer, t_base, edits>>

\* TreeBillboardsApp::Initialize
Tree_Initialize ==
    /\ pc = "constructed"
    /\ app = "tree"
    /\ \E baseOk \in BOOLEAN, device \in BOOLEAN, junk \in JunkVertices :
         IF baseOk
         THEN LET w == Waves(meshData.waves.RowCount, meshData.waves.ColumnCount)
                  geos == [ landGeo |-> Tree_BuildLandGeometry(meshData.shapes),
                            waterGeo |-> Tree_BuildWavesGeometry(w),
                            boxGeo |-> Tree_BuildBoxGeometry(meshData.shapes, junk),
                            treeSpritesGeo |-> Tree_BuildTreeSpritesGeometry ]
                  mats == Tree_BuildMaterials
                  built == Tree_BuildRenderItems(geos)
                  frs == Tree_BuildFrameResources(built.mAllRitems, mats, w)
              IN  /\ device
                  /\ md3dDevice' = TRUE
                  /\ mWaves' = w
                  /\ mGeometries' = geos
                  /\ mMaterials' = mats
                  /\ mAllRitems' = built.mAllRitems
                  /\ mRitemLayer' = built.mRitemLayer
                  /\ mFrameResources' = frs
                  /\ hist' = HistAfterBuild(built.mAllRitems, mats, frs)
                  /\ pc' = "idle"
         ELSE /\ md3dDevice' = device
              /\ pc' = "exit"
              /\ UNCHANGED <<mWaves, mGeometries, mMaterials, mAllRitems, mRitemLayer,
                             mFrameResources, hist>>
    /\ UNCHANGED <<cam, apiFailure, gpuHung, mCbvHeap, mIsWireframe,
                   app, mCurrFrameResource, mCurrFrameResourceIndex,
                   mCurrentFence, mFence, gpuQueue, waterGeoVB, mCommandList,
                   meshData, mTimer, t_base, edits>>

(***************************************************************************)
(* Update.                                                                 *)
(***************************************************************************)
Min(a, b) == IF a <= b THEN a ELSE b

\* ritems[i] dereferenced: the position in mAllRitems of the item pointed to.
ItemIndex(items, name) == CHOOSE k \in DOMAIN items : items[k].Name = name

\* (mCurrFrameResourceIndex + 1) % gNumFrameResources
NextFrameResourceIndex_Stuck(i) == i

\* The ring one slot short.
NextFrameResourceIndex_ShortRing(i) == (i + 1) % (gNumFrameResources - 1)

NextFrameResourceIndex(i) == (i + 1) % gNumFrameResources

\* The wait of Update is over: not (Fence != 0 && GetCompletedValue() < Fence).
GateOpen_Always(fr, completed) == TRUE

GateOpen_OffByOne(fr, completed) == ~(fr.Fence # 0 /\ completed + 1 < fr.Fence)

GateOpen(fr, completed) == ~(fr.Fence # 0 /\ completed < fr.Fence)

\* ObjectConstants written by UpdateObjectCBs.
Castle_ObjectConstants(e) == [ World |-> XMMatrixTranspose(e.World) ]

Tree_ObjectConstants(e) ==
    [ World |-> XMMatrixTranspose(e.World),
      TexTransform |-> XMMatrixTranspose(e.TexTransform) ]

\* UploadBuffer::CopyData(elementIndex, data)
CopyData(buf, elementIndex, data) == [ buf EXCEPT ![elementIndex] = data ]

\* The loop of MyCastleApp::UpdateObjectCBs from item k on: the buffer written.
RECURSIVE Castle_ObjectCBLoop(_, _, _)
Castle_ObjectCBLoop(items, k, cb) ==
    IF k > Len(items) THEN cb
    ELSE Castle_ObjectCBLoop(items, k + 1,
            IF items[k].NumFramesDirty > 0
            THEN CopyData(cb, items[k].ObjCBIndex, Castle_ObjectConstants(items[k]))
            ELSE cb)

\* MyCastleApp::UpdateObjectCBs: the items, the current ObjectCB, and the
\* positions of the items for which CopyData was called.
Castle_UpdateObjectCBs_Once(items, cb) ==
    [ items  |-> [ k \in DOMAIN items |->
                     IF items[k].NumFramesDirty > 0
                     THEN [ items[k] EXCEPT !.NumFramesDirty = 0 ]
                     ELSE items[k] ],
      cb     |-> Castle_ObjectCBLoop(items, 1, cb),
      copied |-> { k \in DOMAIN items : items[k].NumFramesDirty > 0 } ]

Castle_UpdateObjectCBs(items, cb) ==
    [ items  |-> [ k \in DOMAIN items |->
                     IF items[k].NumFramesDirty > 0
                     THEN [ items[k] EXCEPT !.NumFramesDirty = @ - 1 ]
                     ELSE items[k] ],
      cb     |-> Castle_ObjectCBLoop(items, 1, cb),
      copied |-> { k \in DOMAIN items : items[k].NumFramesDirty > 0 } ]

RECURSIVE Tree_ObjectCBLoop(_, _, _)
Tree_ObjectCBLoop(items, k, cb) ==
    IF k > Len(items) THEN cb
    ELSE Tree_ObjectCBLoop(items, k + 1,
            IF items[k].NumFramesDirty > 0
            THEN CopyData(cb, items[k].ObjCBIndex, Tree_ObjectConstants(items[k]))
            ELSE cb)

\* The test of the counter left out: every item is copied at every tick.
Tree_UpdateObjectCBs_Always(items, cb) ==
    [ items  |-> [ k \in DOMAIN items |->
                     IF items[k].NumFramesDirty > 0
                     THEN [ items[k] EXCEPT !.NumFramesDirty = @ - 1 ]
                     ELSE items[k] ],
      cb     |-> [ i \in DOMAIN cb |->
                     IF \E k \in DOMAIN items : items[k].ObjCBIndex = i
                     THEN Tree_ObjectConstants(
                            items[CHOOSE k \in DOMAIN items : items[k].ObjCBIndex = i])
                     ELSE cb[i] ],
      copied |-> DOMAIN items ]

\* TreeBillboardsApp::UpdateObjectCBs
Tree_UpdateObjectCBs(items, cb) ==
    [ items  |-> [ k \in DOMAIN items |->
                     IF items[k].NumFramesDirty > 0
                     THEN [ items[k] EXCEPT !.NumFramesDirty = @ - 1 ]
                     ELSE items[k] ],
      cb     |-> Tree_ObjectCBLoop(items, 1, cb),
      copied |-> { k \in DOMAIN items : items[k].NumFramesDirty > 0 } ]

\* MaterialConstants written by UpdateMaterialCBs.
Tree_MaterialConstants(mat) ==
    [ DiffuseAlbedo |-> mat.DiffuseAlbedo, Roughness |-> mat.Roughness,
      MatTransform |-> XMMatrixTranspose(mat.MatTransform) ]

\* TreeBillboardsApp::UpdateMaterialCBs.  The map's iteration order does not
\* show: the materials have distinct MatCBIndex values.
Tree_UpdateMaterialCBs_KeepDirty(mats, cb) ==
    [ mats |-> mats,
      cb   |-> [ i \in DOMAIN cb |->
                   IF \E m \in DOMAIN mats : mats[m].NumFramesDirty > 0 /\ mats[m].MatCBIndex = i
                   THEN Tree_MaterialConstants(
                          mats[CHOOSE m \in DOMAIN mats :
                                 mats[m].NumFramesDirty > 0 /\ mats[m].MatCBIndex = i])
                   ELSE cb[i] ],
      copied |-> { m \in DOMAIN mats : mats[m].NumFramesDirty > 0 } ]

Tree_UpdateMaterialCBs(mats, cb) ==
    [ mats |-> [ m \in DOMAIN mats |->
                   IF mats[m].NumFramesDirty > 0
                   THEN [ mats[m] EXCEPT !.NumFramesDirty = @ - 1 ]
                   ELSE mats[m] ],
      cb   |-> [ i \in DOMAIN cb |->
                   IF \E m \in DOMAIN mats : mats[m].NumFramesDirty > 0 /\ mats[m].MatCBIndex = i
                   THEN Tree_MaterialConstants(
                          mats[CHOOSE m \in DOMAIN mats :
                                 mats[m].NumFramesDirty > 0 /\ mats[m].MatCBIndex = i])
                   ELSE cb[i] ],
      copied |-> { m \in DOMAIN mats : mats[m].NumFramesDirty > 0 } ]

\* M with entry (r, c) set to v.
SetEntry(M, r, c, v) ==
    { e \in M : ~(e[1] = r /\ e[2] = c) } \cup (IF v = 0 THEN {} ELSE { <<r, c, v>> })

\* TreeBillboardsApp::AnimateMaterials, dt in milliseconds: tu += 0.1 * dt,
\* tv += 0.02 * dt, each reduced by 1.0 once when it reaches 1.0.
Tree_AnimateMaterials(mats, dt) ==
    LET waterMat == mats["water"]
        tu0 == Entry(waterMat.MatTransform, 3, 0) + dt \div 10
        tv0 == Entry(waterMat.MatTransform, 3, 1) + dt \div 50
        tu == IF tu0 >= Fx THEN tu0 - Fx ELSE tu0
        tv == IF tv0 >= Fx THEN tv0 - Fx ELSE tv0
    IN  [ mats EXCEPT !["water"] =
            [ waterMat EXCEPT !.MatTransform = SetEntry(SetEntry(@, 3, 0, tu), 3, 1, tv),
                              !.NumFramesDirty = gNumFrameResources ] ]

\* UpdateMainPassCB: the pass constants that vary from frame to frame.
UpdateMainPassCB(gt) == [ TotalTime |-> gt.TotalTime, DeltaTime |-> gt.DeltaTime ]

\* "while" in place of "if": every disturbance that is due is generated in the
\* same call.
Tree_UpdateWaves_CatchUp(w, tb, gt, wavesVB) ==
    LET due == IF gt.TotalTime - tb >= 250 THEN (gt.TotalTime - tb) \div 250 ELSE 0
        w1 == [ w EXCEPT !.Disturbs = @ + due, !.Steps = @ + 1 ]
    IN  [ waves  |-> w1,
          t_base |-> tb + 250 * due,
          vb     |-> [ i \in DOMAIN wavesVB |->
                         IF i < Waves_VertexCount(w1)
                         THEN [ Pos |-> <<"wave", w1.Steps, w1.Disturbs, i>>,
                                Normal |-> <<"waveN", w1.Steps, w1.Disturbs, i>> ]
                         ELSE wavesVB[i] ] ]

\* The copy loop stopping one vertex early: i < mWaves->VertexCount() - 1.
Tree_UpdateWaves_SkipLast(w, tb, gt, wavesVB) ==
    LET disturb == (gt.TotalTime - tb) >= 250
        w1 == [ w EXCEPT !.Disturbs = IF disturb THEN @ + 1 ELSE @,
                         !.Steps = @ + 1 ]
    IN  [ waves  |-> w1,
          t_base |-> IF disturb THEN tb + 250 ELSE tb,
          vb     |-> [ i \in DOMAIN wavesVB |->
                         IF i < Waves_VertexCount(w1) - 1
                         THEN [ Pos |-> <<"wave", w1.Steps, w1.Disturbs, i>>,
                                Normal |-> <<"waveN", w1.Steps, w1.Disturbs, i>> ]
                         ELSE wavesVB[i] ] ]

\* TreeBillboardsApp::UpdateWaves, times in milliseconds.  The simulation state
\* is the number of Update calls and of disturbances so far; vertex i of the
\* solution is named after that state.
Tree_UpdateWaves(w, tb, gt, wavesVB) ==
    LET disturb == (gt.TotalTime - tb) >= 250
        w1 == [ w EXCEPT !.Disturbs = IF disturb THEN @ + 1 ELSE @,
                         !.Steps = @ + 1 ]
    IN  [ waves  |-> w1,
          t_base |-> IF disturb THEN tb + 250 ELSE tb,
          vb     |-> [ i \in DOMAIN wavesVB |->
                         IF i < Waves_VertexCount(w1)
                         THEN [ Pos |-> <<"wave", w1.Steps, w1.Disturbs, i>>,
                                Normal |-> <<"waveN", w1.Steps, w1.Disturbs, i>> ]
                         ELSE wavesVB[i] ] ]

\* History of one Update, per item since its last edit (or its creation): the
\* number of Updates (up to the ring depth), the frame resources they selected,
\* the CopyData calls per frame resource; per material the number of Updates
\* since it was last changed; the handles given to the water geometry; the frame
\* resources written by the Updates so far; the counters the tick of this Update
\* found and the items and materials it called CopyData for.
HistAfterUpdate(h, cur, items, copied, matsBefore, matsAnimated, matCopied, vbNow) ==
    [ objAge    |-> [ k \in DOMAIN h.objAge |-> Min(h.objAge[k] + 1, gNumFrameResources) ],
      objSnap   |-> h.objSnap,
      objCopies |-> [ k \in DOMAIN h.objCopies |->
                        [ f \in Slots |->
                            IF f = cur /\ k \in copied
                            THEN h.objCopies[k][f] + 1
                            ELSE h.objCopies[k][f] ] ],
      objSel    |-> [ k \in DOMAIN h.objSel |->
                        IF h.objAge[k] < gNumFrameResources
                        THEN h.objSel[k] \cup { cur }
                        ELSE h.objSel[k] ],
      matAge    |-> [ m \in DOMAIN h.matAge |->
                        IF matsAnimated[m] # matsBefore[m]
                        THEN 1
                        ELSE Min(h.matAge[m] + 1, gNumFrameResources) ],
      vb        |-> IF vbNow = nullptr THEN h.vb ELSE Append(h.vb, vbNow),
      updated   |-> Append(h.updated, cur),
      drawn     |-> h.drawn,
      hungAt    |-> h.hungAt,
      poll      |-> h.poll,
      mouse     |-> h.mouse,
      tick      |-> [ objDirty  |-> [ k \in DOMAIN items |-> items[k].NumFramesDirty ],
                      objCopied |-> copied,
                      matDirty  |-> [ m \in DOMAIN matsAnimated |-> matsAnimated[m].NumFramesDirty ],
                      matCopied |-> matCopied ] ]

\* GetAsyncKeyState('1') & 0x8000 at the poll of a frame: whether the key is
\* held.  TreeBillboardsApp::OnKeyboardInput is empty and polls nothing.
KeyStates(a) == IF a = "castle" THEN BOOLEAN ELSE { FALSE }

\* OnKeyboardInput with the flag latched: set when the key is held, never reset.
OnKeyboardInput_Latched(a, wireframe, key) ==
    IF a = "castle" THEN (wireframe \/ key) ELSE wireframe

\* MyCastleApp::OnKeyboardInput: mIsWireframe = true when the key is held, false
\* otherwise.
OnKeyboardInput(a, wireframe, key) == IF a = "castle" THEN key ELSE wireframe

\* Update up to the wait: input, camera, and the advance around the ring.  gt is
\* the timer ticked by the message loop before the call.
CycleFrameResource ==
    /\ pc = "idle"
    /\ mCurrentFence < MaxFrames
    /\ \E dt \in DeltaTimes :
         mTimer' = [ TotalTime |-> mTimer.TotalTime + dt, DeltaTime |-> dt ]
    /\ \E key \in KeyStates(app) :
         /\ mIsWireframe' = OnKeyboardInput(app, mIsWireframe, key)
         /\ hist' = [ hist EXCEPT !.poll = IF Len(@) < 2 THEN Append(@, key)
                                           ELSE <<@[2], key>> ]
    /\ mCurrFrameResourceIndex' = NextFrameResourceIndex(mCurrFrameResourceIndex)
    /\ mCurrFrameResource' = mCurrFrameResourceIndex'
    /\ pc' = "gate"
    /\ UNCHANGED <<cam, apiFailure, gpuHung, mCbvHeap,
                   app, md3dDevice, mAllRitems, mRitemLayer, mMaterials, mFrameResources,
                   mCurrentFence, mFence, gpuQueue, waterGeoVB, mCommandList, mWaves,
                   meshData, mGeometries, t_base, edits>>

\* MyCastleApp::Update from the wait on.
Castle_Update_Gate ==
    /\ pc = "gate"
    /\ app = "castle"
    /\ GateOpen(mFrameResources[mCurrFrameResource], mFence)
    /\ LET fr == mFrameResources[mCurrFrameResource]
           obj == Castle_UpdateObjectCBs(mAllRitems, fr.ObjectCB)
       IN  /\ mAllRitems' = obj.items
           /\ mFrameResources' =
                [ mFrameResources EXCEPT ![mCurrFrameResource] =
                    [ fr EXCEPT !.ObjectCB = obj.cb, !.PassCB = UpdateMainPassCB(mTimer) ] ]
           /\ hist' = HistAfterUpdate(hist, mCurrFrameResource, mAllRitems, obj.copied,
                                      mMaterials, mMaterials, {}, nullptr)
    /\ pc' = "draw"
    /\ UNCHANGED <<cam, apiFailure, gpuHung, mCbvHeap, mIsWireframe,
                   app, md3dDevice, mRitemLayer, mMaterials, mCurrFrameResource,
                   mCurrFrameResourceIndex, mCurrentFence, mFence, gpuQueue, waterGeoVB,
                   mCommandList, mWaves, meshData, mGeometries, mTimer, t_base, edits>>

\* TreeBillboardsApp::Update from the wait on.
Tree_Update_Gate ==
    /\ pc = "gate"
    /\ app = "tree"
    /\ GateOpen(mFrameResources[mCurrFrameResource], mFence)
    /\ LET fr == mFrameResources[mCurrFrameResource]
           animated == Tree_AnimateMaterials(mMaterials, mTimer.DeltaTime)
           obj == Tree_UpdateObjectCBs(mAllRitems, fr.ObjectCB)
           mat == Tree_UpdateMaterialCBs(animated, fr.MaterialCB)
           wav == Tree_UpdateWaves(mWaves, t_base, mTimer, fr.WavesVB)
       IN  /\ mAllRitems' = obj.items
           /\ mMaterials' = mat.mats
           /\ mFrameResources' =
                [ mFrameResources EXCEPT ![mCurrFrameResource] =
                    [ fr EXCEPT !.ObjectCB = obj.cb, !.MaterialCB = mat.cb,
                                !.PassCB = UpdateMainPassCB(mTimer), !.WavesVB = wav.vb ] ]
           /\ mWaves' = wav.waves
           /\ t_base' = wav.t_base
           /\ waterGeoVB' = mCurrFrameResource
           /\ hist' = HistAfterUpdate(hist, mCurrFrameResource, mAllRitems, obj.copied,
                                      mMaterials, animated, mat.copied, mCurrFrameResource)
    /\ pc' = "draw"
    /\ UNCHANGED <<cam, apiFailure, gpuHung, mCbvHeap, mIsWireframe,
                   app, md3dDevice, mRitemLayer, mCurrFrameResource,
                   mCurrFrameResourceIndex, mCurrentFence, mFence, gpuQueue,
                   mCommandList, meshData, mGeometries, mTimer, edits>>

\* MyCastleApp::Update up to the wait.
Castle_Update_Cycle == app = "castle" /\ CycleFrameResource

\* TreeBillboardsApp::Update up to the wait.
Tree_Update_Cycle == app = "tree" /\ CycleFrameResource

(***************************************************************************)
(* Draw.                                                                   *)
(***************************************************************************)
\* BuildConstantBufferViews: descriptor heapIndex = frameIndex * objCount + i
\* views element i of the ObjectCB of frame resource frameIndex.
Castle_CbvHeap(objCount) ==
    [ heapIndex \in 0..(gNumFrameResources * objCount - 1) |->
        <<heapIndex \div objCount, heapIndex % objCount>> ]

\* MyCastleApp::DrawRenderItems: one draw call per entry of ritems.
\* The pipeline state mCommandList->Reset is given in Draw.
Castle_InitialPSO(wireframe) == IF wireframe THEN "opaque_wireframe" ELSE "opaque"

Castle_DrawRenderItems(ritems, items, frameIndex, opaqueCount, pso) ==
    [ i \in DOMAIN ritems |->
        LET ri == items[ItemIndex(items, ritems[i])]
        IN  [ Item |-> ri.Name, Layer |-> "Opaque", PSO |-> pso,
              VertexBuffer |-> ri.Geo, IndexBuffer |-> ri.Geo,
              PrimitiveType |-> ri.PrimitiveType,
              cbvIndex |-> frameIndex * opaqueCount + ri.ObjCBIndex,
              IndexCount |-> ri.IndexCount, InstanceCount |-> 1,
              StartIndexLocation |-> ri.StartIndexLocation,
              BaseVertexLocation |-> ri.BaseVertexLocation ] ]

\* The constant buffers addressed in the frame resource after the current one.
Tree_DrawRenderItems_NextSlot(ritems, items, mats, fr, vbWater, layer, pso) ==
    [ i \in DOMAIN ritems |->
        LET ri == items[ItemIndex(items, ritems[i])]
        IN  [ Item |-> ri.Name, Layer |-> layer, PSO |-> pso,
              VertexBuffer |-> IF ri.Geo = "waterGeo" THEN <<"WavesVB", vbWater>> ELSE ri.Geo,
              IndexBuffer |-> ri.Geo,
              PrimitiveType |-> ri.PrimitiveType,
              tex |-> mats[ri.Mat].DiffuseSrvHeapIndex,
              objCB |-> <<(fr + 1) % gNumFrameResources, ri.ObjCBIndex>>,
              matCB |-> <<(fr + 1) % gNumFrameResources, mats[ri.Mat].MatCBIndex>>,
              IndexCount |-> ri.IndexCount, InstanceCount |-> 1,
              StartIndexLocation |-> ri.StartIndexLocation,
              BaseVertexLocation |-> ri.BaseVertexLocation ] ]

\* TreeBillboardsApp::DrawRenderItems under the pipeline state set for the layer.
\* Constant buffers are addressed in the current frame resource; the water
\* geometry's vertex buffer is the one UpdateWaves pointed it to.
Tree_DrawRenderItems(ritems, items, mats, fr, vbWater, layer, pso) ==
    [ i \in DOMAIN ritems |->
        LET ri == items[ItemIndex(items, ritems[i])]
        IN  [ Item |-> ri.Name, Layer |-> layer, PSO |-> pso,
              VertexBuffer |-> IF ri.Geo = "waterGeo" THEN <<"WavesVB", vbWater>> ELSE ri.Geo,
              IndexBuffer |-> ri.Geo,
              PrimitiveType |-> ri.PrimitiveType,
              tex |-> mats[ri.Mat].DiffuseSrvHeapIndex,
              objCB |-> <<fr, ri.ObjCBIndex>>,
              matCB |-> <<fr, mats[ri.Mat].MatCBIndex>>,
              IndexCount |-> ri.IndexCount, InstanceCount |-> 1,
              StartIndexLocation |-> ri.StartIndexLocation,
              BaseVertexLocation |-> ri.BaseVertexLocation ] ]

\* The layers in the order Draw submits them, with the pipeline state of each.
Tree_DrawOrder_Enum ==
    << <<"Opaque", "opaque">>, <<"Transparent", "transparent">>,
       <<"AlphaTested", "alphaTested">>, <<"AlphaTestedTreeSprites", "treeSprites">> >>

\* Draw without the DrawRenderItems call for the tree sprite layer.
Tree_DrawOrder_NoSprites ==
    << <<"Opaque", "opaque">>, <<"AlphaTested", "alphaTested">>,
       <<"Transparent", "transparent">> >>

Tree_DrawOrder ==
    << <<"Opaque", "opaque">>, <<"AlphaTested", "alphaTested">>,
       <<"AlphaTestedTreeSprites", "treeSprites">>, <<"Transparent", "transparent">> >>

\* The stamp taken before the increment: Fence = mCurrentFence++.
Submit_StaleStamp ==
    /\ mCurrentFence' = mCurrentFence + 1
    /\ mFrameResources' =
         [ mFrameResources EXCEPT ![mCurrFrameResource].Fence = mCurrentFence ]
    /\ gpuQueue' = gpuQueue \o << [ kind |-> "exec", frame |-> mCurrFrameResource ],
                                  [ kind |-> "signal", value |-> mCurrentFence + 1 ] >>
    /\ hist' = [ hist EXCEPT !.drawn = Append(@, mCurrFrameResource) ]

\* The stamp without the Signal: the command list is queued and the frame
\* resource stamped, but no fence signal follows the list on the queue.
Submit_NoSignal ==
    /\ mCurrentFence' = mCurrentFence + 1
    /\ mFrameResources' =
         [ mFrameResources EXCEPT ![mCurrFrameResource].Fence = mCurrentFence + 1 ]
    /\ gpuQueue' = gpuQueue \o << [ kind |-> "exec", frame |-> mCurrFrameResource ] >>
    /\ hist' = [ hist EXCEPT !.drawn = Append(@, mCurrFrameResource) ]

\* ExecuteCommandLists, then Fence = ++mCurrentFence, then Signal.
Submit ==
    /\ mCurrentFence' = mCurrentFence + 1
    /\ mFrameResources' =
         [ mFrameResources EXCEPT ![mCurrFrameResource].Fence = mCurrentFence + 1 ]
    /\ gpuQueue' = gpuQueue \o << [ kind |-> "exec", frame |-> mCurrFrameResource ],
                                  [ kind |-> "signal", value |-> mCurrentFence + 1 ] >>
    /\ hist' = [ hist EXCEPT !.drawn = Append(@, mCurrFrameResource) ]

\* MyCastleApp::Draw
Castle_Draw ==
    /\ pc = "draw"
    /\ app = "castle"
    /\ mCommandList' = Castle_DrawRenderItems(mRitemLayer.Opaque, mAllRitems,
                           mCurrFrameResourceIndex, Len(mRitemLayer.Opaque),
                           Castle_InitialPSO(mIsWireframe))
    /\ Submit
    /\ pc' = "idle"
    /\ UNCHANGED <<cam, apiFailure, gpuHung, mCbvHeap, mIsWireframe,
                   app, md3dDevice, mAllRitems, mRitemLayer, mMaterials, mCurrFrameResource,
                   mCurrFrameResourceIndex, mFence, waterGeoVB, mWaves, meshData,
                   mGeometries, mTimer, t_base, edits>>

\* TreeBillboardsApp::Draw
Tree_Draw ==
    /\ pc = "draw"
    /\ app = "tree"
    /\ mCommandList' =
         ConcatAll([ n \in DOMAIN Tree_DrawOrder |->
            Tree_DrawRenderItems(mRitemLayer[Tree_DrawOrder[n][1]], mAllRitems, mMaterials,
                                 mCurrFrameResource, waterGeoVB,
                                 Tree_DrawOrder[n][1], Tree_DrawOrder[n][2]) ])
    /\ Submit
    /\ pc' = "idle"
    /\ UNCHANGED <<cam, apiFailure, gpuHung, mCbvHeap, mIsWireframe,
                   app, md3dDevice, mAllRitems, mRitemLayer, mMaterials, mCurrFrameResource,
                   mCurrFrameResourceIndex, mFence, waterGeoVB, mWaves, meshData,
                   mGeometries, mTimer, t_base, edits>>

(***************************************************************************)
(* GPU timeline.                                                           *)
(***************************************************************************)
\* The GPU finishes the command list at the head of the queue.
Gpu_Execute ==
    /\ ~gpuHung
    /\ gpuQueue # <<>>
    /\ Head(gpuQueue).kind = "exec"
    /\ gpuQueue' = Tail(gpuQueue)
    /\ UNCHANGED <<cam, apiFailure, gpuHung, mCbvHeap, mIsWireframe,
                   app, pc, md3dDevice, mAllRitems, mRitemLayer, mMaterials, mFrameResources,
                   mCurrFrameResource, mCurrFrameResourceIndex, mCurrentFence, mFence,
                   waterGeoVB, mCommandList, mWaves, meshData, mGeometries, mTimer,
                   t_base, edits, hist>>

\* The GPU reaches a Signal: the fence's completed value becomes the value signalled.
Gpu_Signal ==
    /\ ~gpuHung
    /\ gpuQueue # <<>>
    /\ Head(gpuQueue).kind = "signal"
    /\ mFence' = Head(gpuQueue).value
    /\ gpuQueue' = Tail(gpuQueue)
    /\ UNCHANGED <<cam, apiFailure, gpuHung, mCbvHeap, mIsWireframe,
                   app, pc, md3dDevice, mAllRitems, mRitemLayer, mMaterials, mFrameResources,
                   mCurrFrameResource, mCurrFrameResourceIndex, mCurrentFence,
                   waterGeoVB, mCommandList, mWaves, meshData, mGeometries, mTimer,
                   t_base, edits, hist>>

\* The GPU stops retiring work (a hung or removed device): from here on no
\* command list finishes and no Signal completes.  Neither Update nor Draw
\* looks at the device state; hist.hungAt keeps the number of frames submitted
\* when the GPU stopped.
Gpu_Hang ==
    /\ md3dDevice
    /\ ~gpuHung
    /\ gpuHung' = TRUE
    /\ hist' = [ hist EXCEPT !.hungAt = mCurrentFence ]
    /\ UNCHANGED <<cam, apiFailure, mCbvHeap, mIsWireframe,
                   app, pc, md3dDevice, mAllRitems, mRitemLayer, mMaterials, mFrameResources,
                   mCurrFrameResource, mCurrFrameResourceIndex, mCurrentFence, mFence,
                   gpuQueue, waterGeoVB, mCommandList, mWaves, meshData, mGeometries,
                   mTimer, t_base, edits>>

(***************************************************************************)
(* Transform edits between frames.                                         *)
(***************************************************************************)
\* The n-th edit moves the item to a translation no item has had before.
EditWorld(n) == XMMatrixTranslation(n * Fx, 0, 0)

\* An edit of an item's World: "NumFramesDirty = gNumFrameResources" is applied
\* with it, as the comment on RenderItem::NumFramesDirty requires.
MutateTransform(item, world) ==
    [ item EXCEPT !.World = world, !.NumFramesDirty = gNumFrameResources ]

Edit ==
    /\ pc = "idle"
    /\ edits < MaxEdits
    /\ \E k \in DOMAIN mAllRitems :
         /\ mAllRitems' = [ mAllRitems EXCEPT ![k] = MutateTransform(@, EditWorld(edits + 1)) ]
         /\ hist' = [ hist EXCEPT
                        !.objAge[k] = 0,
                        !.objSnap[k] = [ f \in Slots |->
                                           mFrameResources[f].ObjectCB[mAllRitems[k].ObjCBIndex] ],
                        !.objCopies[k] = [ f \in Slots |-> 0 ],
                        !.objSel[k] = {} ]
    /\ edits' = edits + 1
    /\ UNCHANGED <<cam, apiFailure, gpuHung, mCbvHeap, mIsWireframe,
                   app, pc, md3dDevice, mRitemLayer, mMaterials, mFrameResources,
                   mCurrFrameResource, mCurrFrameResourceIndex, mCurrentFence, mFence,
                   gpuQueue, waterGeoVB, mCommandList, mWaves, meshData, mGeometries,
                   mTimer, t_base>>

(***************************************************************************)
(* Mouse messages, handled by the message loop between two frames.         *)
(***************************************************************************)
\* MathHelper::Clamp(x, low, high)
Clamp(x, low, high) == IF x < low THEN low ELSE IF x > high THEN high ELSE x

\* XMConvertToRadians(0.25f * pixels): a quarter of a degree per pixel.
QuarterDegrees(pixels) == pixels * (Pi \div 720) + (pixels * (Pi % 720)) \div 720

\* Scene units per pixel of a right-button drag: 0.05f in MyCastleApp, 0.2f in
\* TreeBillboardsApp.
ZoomPerPixel(a) == IF a = "castle" THEN Fx \div 20 ELSE Fx \div 5

\* The left-button branch of OnMouseMove: mTheta += dx.
OnMouseMove_Theta(theta, dxPixels) == theta + QuarterDegrees(dxPixels)

\* mPhi += dy without the clamp that follows it.
OnMouseMove_Phi_NoClamp(phi, dyPixels) == phi + QuarterDegrees(dyPixels)

\* The left-button branch of OnMouseMove: mPhi += dy, then the clamp.
OnMouseMove_Phi(phi, dyPixels) ==
    Clamp(phi + QuarterDegrees(dyPixels), AngleFx \div 10, Pi - AngleFx \div 10)

\* The right-button branch of OnMouseMove: mRadius += dx - dy, then the clamp.
OnMouseMove_Radius_NoClamp(a, radius, dxPixels, dyPixels) ==
    radius + ZoomPerPixel(a) * dxPixels - ZoomPerPixel(a) * dyPixels

OnMouseMove_Radius(a, radius, dxPixels, dyPixels) ==
    Clamp(radius + ZoomPerPixel(a) * dxPixels - ZoomPerPixel(a) * dyPixels,
          5 * Fx, 150 * Fx)

\* Client-area coordinates a mouse message can carry.
MouseXs == { 0, 800 }
MouseYs == { 0, 600 }

\* WPARAM btnState: the buttons held.
BtnStates == SUBSET { "MK_LBUTTON", "MK_RBUTTON" }

\* What a read of the unwritten mLastMousePos can yield.
GarbagePoints == { [ x |-> a, y |-> b ] : a, b \in { -GarbageCoord, GarbageCoord } }

\* mLastMousePos as a handler reads it.
LastMousePosRead ==
    IF mLastMousePos = Indeterminate THEN GarbagePoints ELSE { mLastMousePos }

\* The mouse message recorded for the properties: its inputs and the camera
\* before it.
MouseMsg(kind, btnState, dx, dy) ==
    [ n |-> hist.mouse.n + 1, kind |-> kind, btnState |-> btnState, dx |-> dx, dy |-> dy,
      mTheta |-> mTheta, mPhi |-> mPhi, mRadius |-> mRadius ]

\* OnMouseDown(btnState, x, y)
OnMouseDown ==
    /\ pc = "idle"
    /\ hist.mouse.n < MaxMouseMsgs
    /\ \E btnState \in BtnStates \ { {} }, x \in MouseXs, y \in MouseYs :
         /\ mLastMousePos' = [ x |-> x, y |-> y ]
         /\ hist' = [ hist EXCEPT !.mouse = MouseMsg("down", btnState, 0, 0) ]
    /\ UNCHANGED <<mTheta, mPhi, mRadius, apiFailure, gpuHung, mCbvHeap, mIsWireframe,
                   app, pc, md3dDevice, mAllRitems, mRitemLayer, mMaterials, mFrameResources,
                   mCurrFrameResource, mCurrFrameResourceIndex, mCurrentFence, mFence,
                   gpuQueue, waterGeoVB, mCommandList, mWaves, meshData, mGeometries,
                   mTimer, t_base, edits>>

\* OnMouseMove with "if" in place of "else if": the right-button branch runs
\* whenever the right button is held.
OnMouseMove_BothBranches ==
    /\ pc = "idle"
    /\ hist.mouse.n < MaxMouseMsgs
    /\ \E btnState \in BtnStates, x \in MouseXs, y \in MouseYs :
         \E last \in IF btnState = {} THEN { [ x |-> x, y |-> y ] } ELSE LastMousePosRead :
           LET dx == x - last.x
               dy == y - last.y
           IN  /\ IF "MK_LBUTTON" \in btnState
                  THEN /\ mTheta' = OnMouseMove_Theta(mTheta, dx)
                       /\ mPhi' = OnMouseMove_Phi(mPhi, dy)
                  ELSE UNCHANGED <<mTheta, mPhi>>
               /\ IF "MK_RBUTTON" \in btnState
                  THEN mRadius' = OnMouseMove_Radius(app, mRadius, dx, dy)
                  ELSE mRadius' = mRadius
               /\ mLastMousePos' = [ x |-> x, y |-> y ]
               /\ hist' = [ hist EXCEPT !.mouse = MouseMsg("move", btnState, dx, dy) ]
    /\ UNCHANGED <<apiFailure, gpuHung, mCbvHeap, mIsWireframe,
                   app, pc, md3dDevice, mAllRitems, mRitemLayer, mMaterials, mFrameResources,
                   mCurrFrameResource, mCurrFrameResourceIndex, mCurrentFence, mFence,
                   gpuQueue, waterGeoVB, mCommandList, mWaves, meshData, mGeometries,
                   mTimer, t_base, edits>>

\* OnMouseMove(btnState, x, y)
OnMouseMove ==
    /\ pc = "idle"
    /\ hist.mouse.n < MaxMouseMsgs
    /\ \E btnState \in BtnStates, x \in MouseXs, y \in MouseYs :
         \E last \in IF btnState = {} THEN { [ x |-> x, y |-> y ] } ELSE LastMousePosRead :
           LET dx == x - last.x
               dy == y - last.y
           IN  /\ IF "MK_LBUTTON" \in btnState
                  THEN /\ mTheta' = OnMouseMove_Theta(mTheta, dx)
                       /\ mPhi' = OnMouseMove_Phi(mPhi, dy)
                       /\ mRadius' = mRadius
                  ELSE IF "MK_RBUTTON" \in btnState
                  THEN /\ mRadius' = OnMouseMove_Radius(app, mRadius, dx, dy)
                       /\ UNCHANGED <<mTheta, mPhi>>
                  ELSE UNCHANGED <<mTheta, mPhi, mRadius>>
               /\ mLastMousePos' = [ x |-> x, y |-> y ]
               /\ hist' = [ hist EXCEPT !.mouse = MouseMsg("move", btnState, dx, dy) ]
    /\ UNCHANGED <<apiFailure, gpuHung, mCbvHeap, mIsWireframe,
                   app, pc, md3dDevice, mAllRitems, mRitemLayer, mMaterials, mFrameResources,
                   mCurrFrameResource, mCurrFrameResourceIndex, mCurrentFence, mFence,
                   gpuQueue, waterGeoVB, mCommandList, mWaves, meshData, mGeometries,
                   mTimer, t_base, edits>>

(***************************************************************************)
(* Shutdown.                                                               *)
(***************************************************************************)
\* The message loop ends between two frames.
Quit ==
    /\ pc = "idle"
    /\ pc' = "exit"
    /\ UNCHANGED <<cam, apiFailure, gpuHung, mCbvHeap, mIsWireframe,
                   app, md3dDevice, mAllRitems, mRitemLayer, mMaterials, mFrameResources,
                   mCurrFrameResource, mCurrFrameResourceIndex, mCurrentFence, mFence,
                   gpuQueue, waterGeoVB, mCommandList, mWaves, meshData, mGeometries,
                   mTimer, t_base, edits, hist>>

\* if (md3dDevice != nullptr) of the destructors.
ShouldFlush_Never(device) == FALSE

ShouldFlush(device) == device

\* ~MyCastleApp / ~TreeBillboardsApp: flush when the device exists, then the
\* members are destroyed.
Dtor ==
    /\ pc = "exit"
    /\ pc' = IF ShouldFlush(md3dDevice) THEN "flush" ELSE "destroyed"
    /\ UNCHANGED <<cam, apiFailure, gpuHung, mCbvHeap, mIsWireframe,
                   app, md3dDevice, mAllRitems, mRitemLayer, mMaterials, mFrameResources,
                   mCurrFrameResource, mCurrFrameResourceIndex, mCurrentFence, mFence,
                   gpuQueue, waterGeoVB, mCommandList, mWaves, meshData, mGeometries,
                   mTimer, t_base, edits, hist>>

\* The highest fence value stamped on a frame resource.
HighestStampedFence ==
    IF mFrameResources = <<>> THEN 0
    ELSE CHOOSE v \in { mFrameResources[f].Fence : f \in Slots } :
            \A f \in Slots : mFrameResources[f].Fence <= v

\* FlushCommandQueue returns once the GPU has completed the highest stamped fence;
\* the destructor then returns and the members release their resources.
FlushCommandQueue ==
    /\ pc = "flush"
    /\ mFence >= HighestStampedFence
    /\ pc' = "destroyed"
    /\ UNCHANGED <<cam, apiFailure, gpuHung, mCbvHeap, mIsWireframe,
                   app, md3dDevice, mAllRitems, mRitemLayer, mMaterials, mFrameResources,
                   mCurrFrameResource, mCurrFrameResourceIndex, mCurrentFence, mFence,
                   gpuQueue, waterGeoVB, mCommandList, mWaves, meshData, mGeometries,
                   mTimer, t_base, edits, hist>>

Next ==
    \/ Castle_Initialize
    \/ Tree_Initialize
    \/ Castle_Update_Cycle
    \/ Tree_Update_Cycle
    \/ Castle_Update_Gate
    \/ Tree_Update_Gate
    \/ Castle_Draw
    \/ Tree_Draw
    \/ Gpu_Execute
    \/ Gpu_Signal
    \/ Edit
    \/ Quit
    \/ Dtor
    \/ FlushCommandQueue

Spec == Init /\ [][Next]_vars

(***************************************************************************)
(* The geometry builders over shapes of any size: the builders run in the  *)
(* order Initialize calls them, on generated shapes of every size within   *)
(* the bounds.                                                             *)
(***************************************************************************)
InitGeo ==
    /\ app \in { "castle", "tree" }
    /\ meshData \in
         { MeshDataOf(app, sizes, m, n) :
             sizes \in SizeVectors(Len(ShapesOf(app)), MaxExtraVerts),
             m \in IF app = "tree" THEN 2..MaxWaveDim ELSE { 2 },
             n \in IF app = "tree" THEN 2..MaxWaveDim ELSE { 2 } }
    /\ InitCommon

GeoUnchanged ==
    UNCHANGED <<cam, apiFailure, gpuHung, mCbvHeap, mIsWireframe,
                app, pc, md3dDevice, mAllRitems, mRitemLayer, mMaterials, mFrameResources,
                mCurrFrameResource, mCurrFrameResourceIndex, mCurrentFence, mFence,
                gpuQueue, waterGeoVB, mCommandList, mWaves, meshData, mTimer, t_base,
                edits, hist>>

\* mGeometries[geo->Name] = std::move(geo)
Store(geos, geo) == geos @@ (geo.Name :> geo)

Geo_Castle_BuildShapeGeometry ==
    /\ app = "castle"
    /\ DOMAIN mGeometries = {}
    /\ mGeometries' = Store(mGeometries, Castle_BuildShapeGeometry(meshData.shapes))
    /\ GeoUnchanged

Geo_Tree_BuildLandGeometry ==
    /\ app = "tree"
    /\ DOMAIN mGeometries = {}
    /\ mGeometries' = Store(mGeometries, Tree_BuildLandGeometry(meshData.shapes))
    /\ GeoUnchanged

Geo_Tree_BuildWavesGeometry ==
    /\ app = "tree"
    /\ DOMAIN mGeometries = { "landGeo" }
    /\ mGeometries' = Store(mGeometries,
          Tree_BuildWavesGeometry(Waves(meshData.waves.RowCount, meshData.waves.ColumnCount)))
    /\ GeoUnchanged

Geo_Tree_BuildBoxGeometry ==
    /\ app = "tree"
    /\ DOMAIN mGeometries = { "landGeo", "waterGeo" }
    /\ \E junk \in JunkVertices :
         mGeometries' = Store(mGeometries, Tree_BuildBoxGeometry(meshData.shapes, junk))
    /\ GeoUnchanged

Geo_Tree_BuildTreeSpritesGeometry ==
    /\ app = "tree"
    /\ DOMAIN mGeometries = { "landGeo", "waterGeo", "boxGeo" }
    /\ mGeometries' = Store(mGeometries, Tree_BuildTreeSpritesGeometry)
    /\ GeoUnchanged

NextGeo ==
    \/ Geo_Castle_BuildShapeGeometry
    \/ Geo_Tree_BuildLandGeometry
    \/ Geo_Tree_BuildWavesGeometry
    \/ Geo_Tree_BuildBoxGeometry
    \/ Geo_Tree_BuildTreeSpritesGeometry

SpecGeo == InitGeo /\ [][NextGeo]_vars

(***************************************************************************)
(* The camera under mouse messages: the application is initialized, then   *)
(* the message loop hands mouse messages to the handlers.                  *)
(***************************************************************************)
NextCam ==
    \/ Castle_Initialize
    \/ Tree_Initialize
    \/ OnMouseDown
    \/ OnMouseMove

SpecCam == Init /\ [][NextCam]_vars

(***************************************************************************)
(* Failed HRESULTs.  ThrowIfFailed throws a DxException, which leaves      *)
(* Initialize or Run, destroys theApp and is caught in WinMain; a call     *)
(* outside ThrowIfFailed has its HRESULT discarded.                        *)
(***************************************************************************)
\* The checked calls of Initialize modelled as failing: the first and the last,
\* and those of the builders between them.
InitCalls ==
    { "mCommandList->Reset", "CreateRootSignature", "CreateDescriptorHeap",
      "CreateGraphicsPipelineState", "mCommandList->Close" }

\* Initialize left by an exception of ThrowIfFailed.  Before the failing call
\* nothing has been built yet or, from BuildFrameResources on, everything has.
Initialize_Throw ==
    /\ pc = "constructed"
    /\ \E call \in InitCalls, junk \in JunkVertices :
         LET allBuilt == \/ call \in { "CreateGraphicsPipelineState", "mCommandList->Close" }
                         \/ call = "CreateDescriptorHeap" /\ app = "castle"
             w == Waves(meshData.waves.RowCount, meshData.waves.ColumnCount)
             geos == IF app = "castle"
                     THEN [ shapeGeo |-> Castle_BuildShapeGeometry(meshData.shapes) ]
                     ELSE [ landGeo |-> Tree_BuildLandGeometry(meshData.shapes),
                            waterGeo |-> Tree_BuildWavesGeometry(w),
                            boxGeo |-> Tree_BuildBoxGeometry(meshData.shapes, junk),
                            treeSpritesGeo |-> Tree_BuildTreeSpritesGeometry ]
             mats == IF app = "castle" THEN <<>> ELSE Tree_BuildMaterials
             built == IF app = "castle" THEN Castle_BuildRenderItems(geos)
                                        ELSE Tree_BuildRenderItems(geos)
             frs == IF app = "castle" THEN Castle_BuildFrameResources(built.mAllRitems)
                    ELSE Tree_BuildFrameResources(built.mAllRitems, mats, w)
         IN  /\ apiFailure' = call
             /\ mWaves' = IF app = "tree" /\ call # "mCommandList->Reset" THEN w ELSE mWaves
             /\ IF allBuilt
                THEN /\ mGeometries' = geos
                     /\ mMaterials' = mats
                     /\ mAllRitems' = built.mAllRitems
                     /\ mRitemLayer' = built.mRitemLayer
                     /\ mFrameResources' = frs
                     /\ hist' = HistAfterBuild(built.mAllRitems, mats, frs)
                ELSE UNCHANGED <<mGeometries, mMaterials, mAllRitems, mRitemLayer,
                                 mFrameResources, hist>>
             /\ mCbvHeap' = IF app = "castle" /\ allBuilt /\ call # "CreateDescriptorHeap"
                            THEN Castle_BuildConstantBufferViews(
                                    Castle_BuildDescriptorHeaps(Len(built.mRitemLayer.Opaque)),
                                    Len(built.mRitemLayer.Opaque))
                            ELSE mCbvHeap
    /\ md3dDevice' = TRUE
    /\ pc' = "exit"
    /\ UNCHANGED <<cam, gpuHung, mIsWireframe, app, mCurrFrameResource, mCurrFrameResourceIndex,
                   mCurrentFence, mFence, gpuQueue, waterGeoVB, mCommandList,
                   meshData, mTimer, t_base, edits>>

\* Update: ThrowIfFailed(mFence->SetEventOnCompletion(...)) throws; the call is
\* made only when the wait is needed.
Update_Throw ==
    /\ pc = "gate"
    /\ ~GateOpen(mFrameResources[mCurrFrameResource], mFence)
    /\ apiFailure' = "SetEventOnCompletion"
    /\ pc' = "exit"
    /\ UNCHANGED <<cam, gpuHung, mCbvHeap, mIsWireframe, app, md3dDevice, mAllRitems, mRitemLayer, mMaterials,
                   mFrameResources, mCurrFrameResource, mCurrFrameResourceIndex,
                   mCurrentFence, mFence, gpuQueue, waterGeoVB, mCommandList, mWaves,
                   meshData, mGeometries, mTimer, t_base, edits, hist>>

\* The draw calls Draw records between Reset and Close.
DrawCommands ==
    IF app = "castle"
    THEN Castle_DrawRenderItems(mRitemLayer.Opaque, mAllRitems, mCurrFrameResourceIndex,
                                Len(mRitemLayer.Opaque), Castle_InitialPSO(mIsWireframe))
    ELSE ConcatAll([ n \in DOMAIN Tree_DrawOrder |->
            Tree_DrawRenderItems(mRitemLayer[Tree_DrawOrder[n][1]], mAllRitems, mMaterials,
                                 mCurrFrameResource, waterGeoVB,
                                 Tree_DrawOrder[n][1], Tree_DrawOrder[n][2]) ])

\* Draw left by an exception of ThrowIfFailed: at a Reset nothing was recorded,
\* at Close the list was recorded, at Present it was also handed to the queue.
Draw_Throw ==
    /\ pc = "draw"
    /\ \E call \in { "cmdListAlloc->Reset", "mCommandList->Reset", "mCommandList->Close",
                      "Present" } :
         /\ apiFailure' = call
         /\ mCommandList' = IF call \in { "mCommandList->Close", "Present" }
                            THEN DrawCommands ELSE mCommandList
         /\ gpuQueue' = IF call = "Present"
                        THEN Append(gpuQueue, [ kind |-> "exec", frame |-> mCurrFrameResource ])
                        ELSE gpuQueue
    /\ pc' = "exit"
    /\ UNCHANGED <<cam, gpuHung, mCbvHeap, mIsWireframe, app, md3dDevice, mAllRitems, mRitemLayer, mMaterials,
                   mFrameResources, mCurrFrameResource, mCurrFrameResourceIndex,
                   mCurrentFence, mFence, waterGeoVB, mWaves, meshData, mGeometries,
                   mTimer, t_base, edits, hist>>

\* Draw whose last call, mCommandQueue->Signal(mFence.Get(), mCurrentFence), fails:
\* the HRESULT is not looked at, nothing was enqueued, and Draw returns.
Draw_SignalFailed ==
    /\ pc = "draw"
    /\ apiFailure' = "mCommandQueue->Signal"
    /\ mCommandList' = DrawCommands
    /\ mCurrentFence' = mCurrentFence + 1
    /\ mFrameResources' =
         [ mFrameResources EXCEPT ![mCurrFrameResource].Fence = mCurrentFence + 1 ]
    /\ gpuQueue' = Append(gpuQueue, [ kind |-> "exec", frame |-> mCurrFrameResource ])
    /\ hist' = [ hist EXCEPT !.drawn = Append(@, mCurrFrameResource) ]
    /\ pc' = "idle"
    /\ UNCHANGED <<cam, gpuHung, mCbvHeap, mIsWireframe, app, md3dDevice, mAllRitems, mRitemLayer, mMaterials,
                   mCurrFrameResource, mCurrFrameResourceIndex, mFence, waterGeoVB, mWaves,
                   meshData, mGeometries, mTimer, t_base, edits>>

NextErr ==
    \/ Castle_Initialize
    \/ Tree_Initialize
    \/ Initialize_Throw
    \/ Castle_Update_Cycle
    \/ Tree_Update_Cycle
    \/ Castle_Update_Gate
    \/ Tree_Update_Gate
    \/ Update_Throw
    \/ Castle_Draw
    \/ Tree_Draw
    \/ Draw_Throw
    \/ Draw_SignalFailed
    \/ Gpu_Execute
    \/ Gpu_Signal
    \/ Quit
    \/ Dtor
    \/ FlushCommandQueue

SpecErr == Init /\ [][NextErr]_vars

(***************************************************************************)
(* The geometry builders at the size of the 16-bit index space.  A mesh is *)
(* held by its sizes only: its vertex count and its largest 32-bit index.  *)
(***************************************************************************)
\* Vertex counts of a generated shape around the capacity of std::uint16_t.
CapSizes == { 1, 65535, 65536, 65537 }

\* Wave grids: 2 x 2, 128 x 128 as Initialize builds it, and grids of 65535 and
\* 65536 vertices.
CapWaves == { <<2, 2>>, <<128, 128>>, <<255, 257>>, <<256, 256>> }

\* The static groups of an application: the name of the group and the shapes
\* concatenated into it, in the order of the index inserts.
CapGroups(a) ==
    IF a = "castle"
    THEN [ shapeGeo |-> CastleShapes ]
    ELSE [ landGeo |-> <<"grid">>,
           boxGeo  |-> <<"box", "sphere", "cylinder", "cone", "Pyramid_flat_head",
                         "Pyramid_pointed_head", "wedge", "pointed_cylinder">> ]

RECURSIVE CapSum(_, _)
\* totalVertexCount: the sum of the Vertices.size() of the shapes.
CapSum(shapes, md) ==
    IF shapes = <<>> THEN 0
    ELSE md[Head(shapes)].VertexCount + CapSum(Tail(shapes), md)

\* A static group as BuildShapeGeometry, BuildLandGeometry and BuildBoxGeometry
\* build it: vertices(totalVertexCount), the GetIndices16() of every shape
\* inserted.  No size is tested on the way.
Cap_BuildStaticGeometry(name, shapes, md) ==
    [ Name |-> name,
      VertexCount |-> CapSum(shapes, md),
      MaxIndex |-> [ s \in Range(shapes) |->
                       [ stored |-> md[s].MaxIndex32 % 65536, meant |-> md[s].MaxIndex32 ] ] ]

\* BuildWavesGeometry behind its assert: the largest index, of the last quad's
\* last corner, assigned to a std::uint16_t.
Cap_BuildWavesGeometry(w) ==
    [ Name |-> "waterGeo",
      VertexCount |-> Waves_VertexCount(w),
      MaxIndex |-> [ grid |-> [ stored |-> (Waves_VertexCount(w) - 1) % 65536,
                                meant  |-> Waves_VertexCount(w) - 1 ] ] ]

InitCap ==
    /\ app \in { "castle", "tree" }
    /\ meshData \in
         { [ shapes |-> [ s \in Range(ShapesOf(app)) |->
                            [ VertexCount |-> IF s = h THEN c ELSE 1,
                              MaxIndex32  |-> IF s = h THEN c - 1 ELSE 0 ] ],
             waves  |-> [ RowCount |-> mn[1], ColumnCount |-> mn[2] ] ] :
             h \in Range(ShapesOf(app)), c \in CapSizes,
             mn \in IF app = "tree" THEN CapWaves ELSE { <<2, 2>> } }
    /\ InitCommon

\* BuildShapeGeometry, BuildLandGeometry, BuildBoxGeometry
Cap_StaticGroup ==
    /\ pc = "constructed"
    /\ \E name \in DOMAIN CapGroups(app) \ DOMAIN mGeometries :
         mGeometries' = Store(mGeometries,
                              Cap_BuildStaticGeometry(name, CapGroups(app)[name], meshData.shapes))
    /\ GeoUnchanged

\* BuildWavesGeometry.  With NDEBUG defined the assert is no code; without it a
\* failed assert ends the process.
Cap_Waves ==
    /\ pc = "constructed"
    /\ app = "tree"
    /\ "waterGeo" \notin DOMAIN mGeometries
    /\ \E NDEBUG \in BOOLEAN :
         IF ~NDEBUG /\ ~(Waves_VertexCount(meshData.waves) < 65535)
         THEN /\ pc' = "abort"
              /\ UNCHANGED mGeometries
         ELSE /\ pc' = pc
              /\ mGeometries' = Store(mGeometries, Cap_BuildWavesGeometry(meshData.waves))
    /\ UNCHANGED <<cam, apiFailure, gpuHung, mCbvHeap, mIsWireframe,
                   app, md3dDevice, mAllRitems, mRitemLayer, mMaterials, mFrameResources,
                   mCurrFrameResource, mCurrFrameResourceIndex, mCurrentFence, mFence,
                   gpuQueue, waterGeoVB, mCommandList, mWaves, meshData, mTimer, t_base,
                   edits, hist>>

NextCap ==
    \/ Cap_StaticGroup
    \/ Cap_Waves

SpecCap == InitCap /\ [][NextCap]_vars

(***************************************************************************)
(* BuildRenderItems with the names of its first item as inputs.  The maps  *)
(* are std::unordered_map, read with operator[].                           *)
(***************************************************************************)
\* A value-initialized mapped value: a null unique_ptr.
NullEntry == [ Null |-> TRUE ]

\* The map after map[key]: operator[] inserts a value-initialized element
\* when the key is absent.
MapIndex(map, key, default) ==
    IF key \in DOMAIN map THEN map ELSE map @@ (key :> default)

\* Names a render item can be written with: registered ones and others.
LookupNames ==
    [ Mat     |-> { "water", "grass", "walls", "wallz" },
      Geo     |-> { "waterGeo", "landGeo", "boxGeo", "shapeGeo", "shapesGeo" },
      Submesh |-> { "grid", "box", "gate", "grd" } ]

\* Initialize with the first render item of BuildRenderItems (wavesRitem in
\* TreeBillboardsApp, gridRitem in MyCastleApp) naming matName, geoName
\* and submeshName.  Geo->DrawArgs through a null Geo is undefined: the process
\* crashes, or the item is filled from whatever is read.
Names_Initialize ==
    /\ pc = "constructed"
    /\ \E matName \in IF app = "tree" THEN LookupNames.Mat ELSE { "none" },
          geoName \in LookupNames.Geo, submeshName \in LookupNames.Submesh,
          junk \in JunkVertices, crash \in BOOLEAN, read \in 0..1 :
         LET w == Waves(meshData.waves.RowCount, meshData.waves.ColumnCount)
             geos0 == IF app = "castle"
                      THEN [ shapeGeo |-> Castle_BuildShapeGeometry(meshData.shapes) ]
                      ELSE [ landGeo |-> Tree_BuildLandGeometry(meshData.shapes),
                             waterGeo |-> Tree_BuildWavesGeometry(w),
                             boxGeo |-> Tree_BuildBoxGeometry(meshData.shapes, junk),
                             treeSpritesGeo |-> Tree_BuildTreeSpritesGeometry ]
             mats0 == IF app = "castle" THEN <<>> ELSE Tree_BuildMaterials
             built == IF app = "castle" THEN Castle_BuildRenderItems(geos0)
                                        ELSE Tree_BuildRenderItems(geos0)
             first == IF app = "castle" THEN "gridRitem" ELSE "wavesRitem"
             mats1 == IF app = "castle" THEN mats0 ELSE MapIndex(mats0, matName, NullEntry)
             geos1 == MapIndex(geos0, geoName, NullEntry)
             geoNull == geos1[geoName] = NullEntry
             args == IF geoNull THEN << >>
                     ELSE MapIndex(geos1[geoName].DrawArgs, submeshName, Submesh(0, 0, 0))
             geos2 == IF geoNull THEN geos1
                      ELSE [ geos1 EXCEPT ![geoName].DrawArgs = args ]
             sub == IF geoNull THEN Submesh(read, read, read) ELSE args[submeshName]
             item0 == built.mAllRitems[ItemIndex(built.mAllRitems, first)]
             item1 == [ item0 EXCEPT !.Geo = IF geoNull THEN "nullptr" ELSE geoName,
                                     !.IndexCount = sub.IndexCount,
                                     !.StartIndexLocation = sub.StartIndexLocation,
                                     !.BaseVertexLocation = sub.BaseVertexLocation ]
             item2 == IF app = "castle" THEN item1
                      ELSE [ item1 EXCEPT !.Mat = IF mats1[matName] = NullEntry
                                                  THEN "nullptr" ELSE matName ]
             items == [ built.mAllRitems EXCEPT ![ItemIndex(built.mAllRitems, first)] = item2 ]
         IN  IF geoNull /\ crash
             THEN /\ pc' = "abort"
                  /\ mGeometries' = geos1
                  /\ mMaterials' = mats1
                  /\ UNCHANGED <<mAllRitems, mRitemLayer>>
             ELSE /\ pc' = "idle"
                  /\ mGeometries' = geos2
                  /\ mMaterials' = mats1
                  /\ mAllRitems' = items
                  /\ mRitemLayer' = built.mRitemLayer
    /\ md3dDevice' = TRUE
    /\ UNCHANGED <<cam, apiFailure, gpuHung, mCbvHeap, mIsWireframe, app, mFrameResources, mCurrFrameResource,
                   mCurrFrameResourceIndex, mCurrentFence, mFence, gpuQueue, waterGeoVB,
                   mCommandList, mWaves, meshData, mTimer, t_base, edits, hist>>

NextNames == Names_Initialize

SpecNames == Init /\ [][NextNames]_vars

(***************************************************************************)
(* The wave update over frames of different lengths: the timer tick of the  *)
(* message loop, the advance around the ring and UpdateWaves of the frame,  *)
(* with no frame submitted to the GPU (every Fence is 0, no wait is needed).*)
(***************************************************************************)
MaxWaveFrames == 5

\* Frame lengths in milliseconds: none, short, exactly the interval, and longer
\* than two intervals.
WaveDeltaTimes == { 0, 100, 250, 600 }

Waves_Frame ==
    /\ pc = "idle"
    /\ app = "tree"
    /\ mWaves.Steps < MaxWaveFrames
    /\ \E dt \in WaveDeltaTimes :
         mTimer' = [ TotalTime |-> mTimer.TotalTime + dt, DeltaTime |-> dt ]
    /\ mCurrFrameResourceIndex' = NextFrameResourceIndex(mCurrFrameResourceIndex)
    /\ mCurrFrameResource' = mCurrFrameResourceIndex'
    /\ LET fr == mFrameResources[mCurrFrameResource']
           wav == Tree_UpdateWaves(mWaves, t_base, mTimer', fr.WavesVB)
       IN  /\ mFrameResources' =
                [ mFrameResources EXCEPT ![mCurrFrameResource'].WavesVB = wav.vb ]
           /\ mWaves' = wav.waves
           /\ t_base' = wav.t_base
           /\ waterGeoVB' = mCurrFrameResource'
    /\ UNCHANGED <<cam, apiFailure, gpuHung, mCbvHeap, mIsWireframe,
                   app, pc, md3dDevice, mAllRitems, mRitemLayer, mMaterials,
                   mCurrentFence, mFence, gpuQueue, mCommandList, meshData, mGeometries,
                   edits, hist>>

NextWaves ==
    \/ Tree_Initialize
    \/ Waves_Frame

SpecWaves == Init /\ [][NextWaves]_vars

(***************************************************************************)
(* The pacing loop while no WM_QUIT arrives.  The message loop of            *)
(* D3DApp::Run calls Update and Draw whenever no message is pending, so the *)
(* CPU thread takes its next step whenever that step is possible; a GPU     *)
(* that has not stopped retires the work at the head of its queue.  The     *)
(* GPU may stop at any time after the device was created.                   *)
(***************************************************************************)
CpuStep ==
    \/ Castle_Initialize
    \/ Tree_Initialize
    \/ Castle_Update_Cycle
    \/ Tree_Update_Cycle
    \/ Castle_Update_Gate
    \/ Tree_Update_Gate
    \/ Castle_Draw
    \/ Tree_Draw

NextLive ==
    \/ Castle_Initialize
    \/ Tree_Initialize
    \/ Castle_Update_Cycle
    \/ Tree_Update_Cycle
    \/ Castle_Update_Gate
    \/ Tree_Update_Gate
    \/ Castle_Draw
    \/ Tree_Draw
    \/ Gpu_Execute
    \/ Gpu_Signal
    \/ Gpu_Hang

FairLive == WF_vars(CpuStep) /\ WF_vars(Gpu_Execute) /\ WF_vars(Gpu_Signal)

SpecLive == Init /\ [][NextLive]_vars /\ FairLive

(***************************************************************************)
(* Properties.                                                             *)
(***************************************************************************)
\* C1: No premature reuse.  Once Update has passed the wait for the selected
\* frame resource and the CPU writes its constant buffers and is about to reset its
\* command allocator, the GPU has completed the fence last stamped on that
\* resource (or the resource was never submitted), and no command list that
\* reads the resource is still in the queue.
C1_NoPrematureReuse ==
    pc = "draw" =>
        /\ \/ mFrameResources[mCurrFrameResource].Fence = 0
           \/ mFence >= mFrameResources[mCurrFrameResource].Fence
        /\ \A n \in DOMAIN gpuQueue :
             gpuQueue[n].kind = "exec" => gpuQueue[n].frame # mCurrFrameResource

\* A frame resource submitted before is written again while the GPU still works
\* on later frames.
C1_Witness ==
    /\ pc = "draw"
    /\ mFrameResources[mCurrFrameResource].Fence # 0
    /\ mFence < mCurrentFence
    /\ gpuQueue # <<>>

\* C2: Dirty propagation completeness.  A render item or material whose counter
\* was set to gNumFrameResources and that was not touched during the next
\* gNumFrameResources Updates has, after exactly that many Updates and not
\* before, counter 0, and every frame resource holds its current constants.
C2_DirtyPropagationComplete ==
    /\ \A k \in DOMAIN mAllRitems :
         /\ (mAllRitems[k].NumFramesDirty = 0) <=> (hist.objAge[k] = gNumFrameResources)
         /\ hist.objAge[k] = gNumFrameResources =>
              \A f \in Slots :
                 mFrameResources[f].ObjectCB[mAllRitems[k].ObjCBIndex] =
                    IF app = "castle" THEN Castle_ObjectConstants(mAllRitems[k])
                                      ELSE Tree_ObjectConstants(mAllRitems[k])
    /\ \A m \in DOMAIN mMaterials :
         /\ (mMaterials[m].NumFramesDirty = 0) <=> (hist.matAge[m] = gNumFrameResources)
         /\ hist.matAge[m] = gNumFrameResources =>
              \A f \in Slots :
                 mFrameResources[f].MaterialCB[mMaterials[m].MatCBIndex] =
                    Tree_MaterialConstants(mMaterials[m])

\* An edited item and a material, three Updates after their last change.
C2_Witness ==
    /\ \E k \in DOMAIN mAllRitems :
         /\ mAllRitems[k].World = EditWorld(1)
         /\ hist.objAge[k] = gNumFrameResources
    /\ \E m \in DOMAIN mMaterials : hist.matAge[m] = gNumFrameResources

\* C3: No stale draw.  Whatever edits were made between frames, when Draw is
\* entered the object constants of every render item in the frame resource about
\* to be drawn are those of the item's current World and TexTransform, and have
\* been written.
C3_NoStaleDraw ==
    pc = "draw" =>
        \A k \in DOMAIN mAllRitems :
            LET entry == mFrameResources[mCurrFrameResource].ObjectCB[mAllRitems[k].ObjCBIndex]
            IN  /\ entry # Unwritten
                /\ entry = IF app = "castle" THEN Castle_ObjectConstants(mAllRitems[k])
                                             ELSE Tree_ObjectConstants(mAllRitems[k])

\* A Draw of a frame resource that held older constants of an item edited after
\* all frame resources had been brought up to date.
C3_Witness ==
    /\ pc = "draw"
    /\ \E k \in DOMAIN mAllRitems :
         /\ mAllRitems[k].World = EditWorld(1)
         /\ hist.objAge[k] = 1
         /\ hist.objSnap[k][mCurrFrameResource] # Unwritten

\* C4: Step-by-step propagation of one edit.  k Updates after an item's last edit
\* (k up to the ring depth) exactly the k frame resources those Updates selected
\* hold the new constants, each copied once, the others hold what they held when
\* the edit was made, and the counter is the ring depth minus k.
C4_StepByStepPropagation ==
    \A k \in DOMAIN mAllRitems :
        LET e == mAllRitems[k]
            written == { f \in Slots : hist.objCopies[k][f] > 0 }
        IN  /\ e.NumFramesDirty = gNumFrameResources - hist.objAge[k]
            /\ written = hist.objSel[k]
            /\ Cardinality(written) = hist.objAge[k]
            /\ \A f \in written :
                 /\ hist.objCopies[k][f] = 1
                 /\ mFrameResources[f].ObjectCB[e.ObjCBIndex] =
                      IF app = "castle" THEN Castle_ObjectConstants(e)
                                        ELSE Tree_ObjectConstants(e)
            /\ \A f \in Slots \ written :
                 mFrameResources[f].ObjectCB[e.ObjCBIndex] = hist.objSnap[k][f]

\* Two Updates after an edit: two frame resources hold the new World, the third
\* still the World of before.
C4_Witness ==
    \E k \in DOMAIN mAllRitems :
        /\ mAllRitems[k].World = EditWorld(1)
        /\ hist.objAge[k] = 2
        /\ mAllRitems[k].NumFramesDirty = 1
        /\ \E f \in Slots : /\ hist.objCopies[k][f] = 0
                            /\ mFrameResources[f].ObjectCB[mAllRitems[k].ObjCBIndex] # Unwritten

\* C5: In-flight bound.  The frames submitted and not yet completed by the GPU
\* never number more than the ring depth, and never more than the ring depth
\* minus one while the CPU is between the wait of Update and the submission in
\* Draw.
C5_InFlightBound ==
    /\ mCurrentFence - mFence <= gNumFrameResources
    /\ pc = "draw" => mCurrentFence - mFence <= gNumFrameResources - 1

\* As many frames in flight as the ring has frame resources.
C5_Witness ==
    /\ pc = "idle"
    /\ mCurrentFence - mFence = gNumFrameResources

\* C5 as stated: at every point of the frame loop at most ring depth - 1 frames
\* are in flight.
C5_AsStated ==
    mCurrentFence - mFence <= gNumFrameResources - 1

\* C6: Draw ordering.  In every frame of the billboard application the draw calls
\* of the items listed in the Opaque layer come first, then those of AlphaTested,
\* then those of AlphaTestedTreeSprites, then those of Transparent, whatever the
\* order in which BuildRenderItems created the items and whatever the order of
\* the RenderLayer enum.
C6_DrawOrdering ==
    app = "tree" =>
        LET LayerOf(name) ==
                CHOOSE l \in DOMAIN mRitemLayer :
                    \E i \in DOMAIN mRitemLayer[l] : mRitemLayer[l][i] = name
            Rank(l) == CASE l = "Opaque" -> 1
                         [] l = "AlphaTested" -> 2
                         [] l = "AlphaTestedTreeSprites" -> 3
                         [] l = "Transparent" -> 4
        IN  \A i, j \in DOMAIN mCommandList :
                i < j => Rank(LayerOf(mCommandList[i].Item)) <= Rank(LayerOf(mCommandList[j].Item))

\* A frame in which the item created first, the water of the Transparent layer
\* (second in the enum), is drawn last, after items of all the other layers.
C6_Witness ==
    /\ app = "tree"
    /\ Len(mCommandList) = Len(mAllRitems)
    /\ mCommandList # <<>>
    /\ mCommandList[Len(mCommandList)].Item = "wavesRitem"
    /\ mAllRitems[ItemIndex(mAllRitems, "wavesRitem")].ObjCBIndex = 0
    /\ { mCommandList[i].PSO : i \in DOMAIN mCommandList } =
          { "opaque", "alphaTested", "treeSprites", "transparent" }

\* C7: Layer partition.  After BuildRenderItems every item of mAllRitems is listed
\* exactly once in the layer lists taken together, the layer lists list nothing
\* else, and in the castle application the opaque list is the full list in order.
C7_LayerPartition ==
    LET owned == { mAllRitems[k].Name : k \in DOMAIN mAllRitems }
        Listings(name) ==
            UNION { { <<l, i>> : i \in { j \in DOMAIN mRitemLayer[l] : mRitemLayer[l][j] = name } }
                      : l \in DOMAIN mRitemLayer }
        listed == UNION { { mRitemLayer[l][i] : i \in DOMAIN mRitemLayer[l] }
                            : l \in DOMAIN mRitemLayer }
    IN  /\ \A name \in owned : Cardinality(Listings(name)) = 1
        /\ listed = owned
        /\ (app = "castle" /\ mAllRitems # <<>>) =>
              mRitemLayer.Opaque = [ k \in DOMAIN mAllRitems |-> mAllRitems[k].Name ]

\* Right after Initialize of the billboard application: items in four layers.
C7_Witness ==
    /\ pc = "idle"
    /\ mCurrentFence = 0
    /\ mAllRitems # <<>>
    /\ Cardinality(DOMAIN mRitemLayer) = 4
    /\ \E l \in DOMAIN mRitemLayer : Len(mRitemLayer[l]) > 1

\* C8: Wave buffer rotation.  The water geometry has no vertex buffer right after
\* Initialize; the n-th Update (n = 1, 2, 3, 4, ...) points it to the dynamic
\* buffer of frame resource n mod 3, that is 1, 2, 0, 1, ...
C8_WaveBufferRotation ==
    app = "tree" =>
        /\ \A n \in DOMAIN hist.vb : hist.vb[n] = n % gNumFrameResources
        /\ waterGeoVB = IF hist.vb = <<>> THEN nullptr ELSE hist.vb[Len(hist.vb)]

\* Four frames: the handle has gone through 1, 2, 0, 1.
C8_Witness ==
    /\ app = "tree"
    /\ hist.vb = <<1, 2, 0, 1>>
    /\ waterGeoVB = 1

\* C8 as stated: the handles of successive frames are those of frame resources
\* 0, 1, 2, 0.
C8_AsStated ==
    app = "tree" => \A n \in DOMAIN hist.vb : hist.vb[n] = (n - 1) % gNumFrameResources

\* C9: Submesh range validity.  For every submesh of every geometry built, for
\* shapes of any size, StartIndexLocation + IndexCount is at most the number of
\* indices of the geometry, and BaseVertexLocation plus any index in the
\* submesh's range is below the number of vertices of the geometry.
C9_SubmeshRangeValid ==
    \A g \in DOMAIN mGeometries :
        \A s \in DOMAIN mGeometries[g].DrawArgs :
            LET geo == mGeometries[g]
                sm == geo.DrawArgs[s]
            IN  /\ sm.StartIndexLocation + sm.IndexCount <= Len(geo.IndexBufferCPU)
                /\ \A k \in ((sm.StartIndexLocation + 1)..(sm.StartIndexLocation + sm.IndexCount))
                               \cap DOMAIN geo.IndexBufferCPU :
                     sm.BaseVertexLocation + geo.IndexBufferCPU[k] < geo.VertexCount

\* All geometries of the billboard application built from shapes of which some
\* are larger than the smallest, the last submesh starting after them.
C9_Witness ==
    /\ DOMAIN mGeometries = { "landGeo", "waterGeo", "boxGeo", "treeSpritesGeo" }
    /\ mGeometries["boxGeo"].VertexCount > 8
    /\ mGeometries["boxGeo"].DrawArgs["pointed_cylinder"].BaseVertexLocation > 7
    /\ mGeometries["waterGeo"].VertexCount > 4

\* C10: Shutdown flush.  When the application object has been destroyed with a
\* live device, the GPU has completed every fence value stamped on a frame
\* resource and the command queue is empty: the resources are released only
\* after the flush.
C10_ShutdownFlush ==
    (pc = "destroyed" /\ md3dDevice) =>
        /\ \A f \in DOMAIN mFrameResources : mFence >= mFrameResources[f].Fence
        /\ gpuQueue = <<>>

\* Destroyed after frames were submitted to a live device.
C10_Witness ==
    /\ pc = "destroyed"
    /\ md3dDevice
    /\ mCurrentFence >= gNumFrameResources
    /\ mFence = mCurrentFence

\* C11: Fence stamping.  Each Draw stamps the frame resource it just submitted
\* with a fence value greater than every value stamped before; the command list
\* is in the queue before the signal, the signal carries exactly the stamped
\* value, the non-zero fences of the frame resources are pairwise distinct and
\* the frame resource submitted last holds the largest.
C11_FenceStamping ==
    [][ (pc = "draw" /\ pc' = "idle") =>
          LET cur == mCurrFrameResource
              n   == Len(gpuQueue)
          IN  /\ \A f \in Slots : mFrameResources[f].Fence <= mCurrentFence
              /\ mFrameResources'[cur].Fence > mCurrentFence
              /\ mFrameResources'[cur].Fence = mCurrentFence'
              /\ Len(gpuQueue') = n + 2
              /\ gpuQueue'[n + 1] = [ kind |-> "exec", frame |-> cur ]
              /\ gpuQueue'[n + 2] = [ kind |-> "signal", value |-> mFrameResources'[cur].Fence ]
              /\ \A f, g \in Slots :
                   f # g /\ mFrameResources'[f].Fence # 0 =>
                      mFrameResources'[f].Fence # mFrameResources'[g].Fence
              /\ \A f \in Slots : mFrameResources'[f].Fence <= mFrameResources'[cur].Fence
      ]_vars

\* A Draw has just stamped a frame resource that carried an older stamp, and the
\* other frame resources carry stamps too.
C11_Witness ==
    /\ pc = "idle"
    /\ Len(hist.drawn) > gNumFrameResources
    /\ mFrameResources[mCurrFrameResource].Fence = mCurrentFence
    /\ \A f \in Slots : mFrameResources[f].Fence # 0

\* C12: Ring rotation.  From BuildFrameResources on there are exactly
\* gNumFrameResources frame resources; every Update advances the index to
\* (index + 1) mod gNumFrameResources, the index stays in 0 .. gNumFrameResources - 1,
\* mCurrFrameResource is the frame resource at that index while the frame's
\* constants are written and while it is drawn, and any gNumFrameResources
\* consecutive frames use distinct frame resources, each one again exactly
\* gNumFrameResources frames later.
C12_RingRotation ==
    /\ [] /\ mCurrFrameResourceIndex \in Slots
          /\ pc \in { "idle", "gate", "draw" } => DOMAIN mFrameResources = Slots
          /\ pc \in { "gate", "draw" } => mCurrFrameResource = mCurrFrameResourceIndex
          /\ pc = "draw" => hist.updated[Len(hist.updated)] = mCurrFrameResourceIndex
          /\ Len(hist.drawn) <= Len(hist.updated)
          /\ \A n \in DOMAIN hist.drawn : hist.drawn[n] = hist.updated[n]
          /\ \A n, m \in DOMAIN hist.updated :
               /\ hist.updated[n] \in Slots
               /\ (n < m /\ m < n + gNumFrameResources) => hist.updated[n] # hist.updated[m]
               /\ m = n + gNumFrameResources => hist.updated[n] = hist.updated[m]
    /\ [][ /\ (pc = "idle" /\ pc' = "gate") =>
                /\ mCurrFrameResourceIndex' = (mCurrFrameResourceIndex + 1) % gNumFrameResources
                /\ mCurrFrameResource' = mCurrFrameResourceIndex'
           /\ (pc \in { "gate", "draw" } /\ pc' \in { "draw", "idle" }) =>
                /\ mCurrFrameResourceIndex' = mCurrFrameResourceIndex
                /\ mCurrFrameResource' = mCurrFrameResource
           /\ pc \in { "idle", "gate", "draw" } =>
                DOMAIN mFrameResources' = DOMAIN mFrameResources
         ]_vars

\* A frame resource is drawn a second time, gNumFrameResources frames after its
\* first use.
C12_Witness ==
    /\ pc = "idle"
    /\ Len(hist.drawn) > gNumFrameResources
    /\ hist.drawn[Len(hist.drawn)] = hist.drawn[Len(hist.drawn) - gNumFrameResources]
    /\ mCurrFrameResourceIndex = hist.drawn[Len(hist.drawn)]

\* C13: Dirty-counter tick.  The counter of every render item and material is
\* within 0 .. gNumFrameResources; the tick of an Update calls CopyData for an
\* entity exactly when its counter is above 0 at that tick, and then lowers the
\* counter by exactly 1; with the counter at 0 the tick neither writes the
\* entity's constants nor changes the counter.
C13_DirtyCounterTick ==
    /\ [] /\ \A k \in DOMAIN mAllRitems :
               mAllRitems[k].NumFramesDirty \in 0 .. gNumFrameResources
          /\ \A m \in DOMAIN mMaterials :
               mMaterials[m].NumFramesDirty \in 0 .. gNumFrameResources
    /\ [][ (pc = "gate" /\ pc' = "draw") =>
             LET t   == hist'.tick
                 cur == mCurrFrameResource
             IN  /\ \A k \in DOMAIN mAllRitems :
                      LET i == mAllRitems[k].ObjCBIndex
                      IN  /\ t.objDirty[k] = mAllRitems[k].NumFramesDirty
                          /\ (k \in t.objCopied) <=> (t.objDirty[k] > 0)
                          /\ hist'.objCopies[k][cur] =
                                hist.objCopies[k][cur] + (IF t.objDirty[k] > 0 THEN 1 ELSE 0)
                          /\ t.objDirty[k] > 0 =>
                               mAllRitems'[k].NumFramesDirty = t.objDirty[k] - 1
                          /\ t.objDirty[k] = 0 =>
                               /\ mAllRitems'[k].NumFramesDirty = 0
                               /\ mFrameResources'[cur].ObjectCB[i] =
                                     mFrameResources[cur].ObjectCB[i]
                 /\ \A m \in DOMAIN mMaterials :
                      LET i == mMaterials[m].MatCBIndex
                      IN  /\ (m \in t.matCopied) <=> (t.matDirty[m] > 0)
                          /\ t.matDirty[m] > 0 =>
                               /\ mMaterials'[m].NumFramesDirty = t.matDirty[m] - 1
                               /\ mFrameResources'[cur].MaterialCB[i] =
                                     Tree_MaterialConstants(mMaterials'[m])
                          /\ t.matDirty[m] = 0 =>
                               /\ mMaterials'[m].NumFramesDirty = 0
                               /\ mMaterials'[m] = mMaterials[m]
                               /\ mFrameResources'[cur].MaterialCB[i] =
                                     mFrameResources[cur].MaterialCB[i]
         ]_vars

\* A tick has found one render item with its counter above 0 and another with
\* its counter at 0, and likewise two materials.
C13_Witness ==
    /\ pc = "draw"
    /\ \E k, j \in DOMAIN mAllRitems :
         /\ hist.tick.objDirty[k] > 0 /\ k \in hist.tick.objCopied
         /\ hist.tick.objDirty[j] = 0 /\ j \notin hist.tick.objCopied
    /\ \E m, n \in DOMAIN mMaterials :
         /\ hist.tick.matDirty[m] > 0 /\ m \in hist.tick.matCopied
         /\ hist.tick.matDirty[n] = 0 /\ n \notin hist.tick.matCopied

\* C20: Update happens-before Draw on the same slot.  Object, material and pass
\* constants and wave vertices are written into a frame resource only by the
\* Update that selected it, after that Update's wait is over and before the
\* frame's command list is submitted; Draw changes neither the index nor the
\* current frame resource, writes no constants, and the command list it submits
\* reads the frame resource that Update selected.
C20_UpdateBeforeDraw ==
    [][ /\ \A f \in DOMAIN mFrameResources \cap DOMAIN mFrameResources' :
             [ mFrameResources'[f] EXCEPT !.Fence = 0 ] # [ mFrameResources[f] EXCEPT !.Fence = 0 ] =>
                /\ pc = "gate" /\ pc' = "draw"
                /\ f = mCurrFrameResource
                /\ f = mCurrFrameResourceIndex
                /\ GateOpen(mFrameResources[f], mFence)
                /\ hist'.updated = Append(hist.updated, f)
                /\ hist'.drawn = hist.drawn
                /\ Len(hist.drawn) = Len(hist.updated)
        /\ (pc = "draw" /\ pc' = "idle") =>
             LET sel == hist.updated[Len(hist.updated)]
             IN  /\ mCurrFrameResourceIndex = sel
                 /\ mCurrFrameResource = sel
                 /\ mCurrFrameResourceIndex' = sel
                 /\ mCurrFrameResource' = sel
                 /\ hist'.drawn = Append(hist.drawn, sel)
                 /\ hist'.drawn = hist.updated
                 /\ gpuQueue'[Len(gpuQueue) + 1] = [ kind |-> "exec", frame |-> sel ]
                 /\ mCommandList' # <<>>
                 /\ \A n \in DOMAIN mCommandList' :
                      IF app = "castle"
                      THEN Castle_CbvHeap(Len(mRitemLayer.Opaque))[mCommandList'[n].cbvIndex][1] = sel
                      ELSE /\ mCommandList'[n].objCB[1] = sel
                           /\ mCommandList'[n].matCB[1] = sel
                           /\ mCommandList'[n].IndexBuffer = "waterGeo" =>
                                mCommandList'[n].VertexBuffer = <<"WavesVB", sel>>
      ]_vars

\* A frame resource written for the second time has been drawn: its constants
\* are those of the last Update and its command list is the newest in the queue.
C20_Witness ==
    /\ pc = "idle"
    /\ Len(hist.updated) > gNumFrameResources
    /\ hist.drawn = hist.updated
    /\ mFrameResources[mCurrFrameResource].PassCB = UpdateMainPassCB(mTimer)
    /\ \E n \in DOMAIN gpuQueue : gpuQueue[n] = [ kind |-> "exec", frame |-> mCurrFrameResource ]
    /\ mCommandList # <<>>

\* C14: Camera clamp idempotence.  After any sequence of mouse messages the
\* camera radius is within [5, 150]; a right-button drag whose delta would carry
\* the radius past a bound leaves it exactly at that bound, and a drag directed
\* outward that starts at a bound leaves the radius at the bound, so repeating
\* an out-of-range zoom delta changes nothing after its first application.
C14_CameraClampIdempotent ==
    /\ mRadius >= 5 * Fx
    /\ mRadius <= 150 * Fx
    /\ LET e == hist.mouse
           delta == ZoomPerPixel(app) * e.dx - ZoomPerPixel(app) * e.dy
       IN  (e.kind = "move" /\ e.btnState = { "MK_RBUTTON" }) =>
              /\ e.mRadius + delta > 150 * Fx => mRadius = 150 * Fx
              /\ e.mRadius + delta < 5 * Fx => mRadius = 5 * Fx
              /\ (e.mRadius = 150 * Fx /\ delta >= 0) => mRadius = e.mRadius
              /\ (e.mRadius = 5 * Fx /\ delta <= 0) => mRadius = e.mRadius
              /\ (e.mRadius + delta >= 5 * Fx /\ e.mRadius + delta <= 150 * Fx) =>
                    mRadius = e.mRadius + delta

\* A right-button drag directed outward has been handled with the radius
\* already at the upper bound, or already at the lower bound, after an earlier
\* drag had carried it there from inside the range.
C14_Witness ==
    /\ hist.mouse.kind = "move"
    /\ hist.mouse.btnState = { "MK_RBUTTON" }
    /\ hist.mouse.n > 2
    /\ \/ /\ hist.mouse.mRadius = 150 * Fx
          /\ hist.mouse.dx - hist.mouse.dy > 0
          /\ mRadius = 150 * Fx
          /\ app = "tree"
       \/ /\ hist.mouse.mRadius = 5 * Fx
          /\ hist.mouse.dx - hist.mouse.dy < 0
          /\ mRadius = 5 * Fx
          /\ app = "castle"
          /\ mLastMousePos = [ x |-> 0, y |-> 600 ]

\* C15: Fatal device errors.  Once a graphics-API call of Initialize or of a
\* frame has failed, the session is ending: the application is leaving through
\* its destructor, and neither a later initialization step nor a later frame
\* runs with the failure ignored.
C15_FatalDeviceErrors ==
    apiFailure # "none" => pc \in { "exit", "flush", "destroyed" }

C18_SubmeshOffsetsMatchPlacement ==
    \A g \in DOMAIN mGeometries \cap { "shapeGeo", "boxGeo" } :
        \A s \in DOMAIN mGeometries[g].DrawArgs :
            LET geo == mGeometries[g]
                sm == geo.DrawArgs[s]
                mesh == meshData.shapes[s]
            IN  /\ \A i \in 1..Len(mesh.Vertices) :
                     /\ sm.BaseVertexLocation + i \in DOMAIN geo.VertexBufferCPU
                     /\ "Pos" \in DOMAIN geo.VertexBufferCPU[sm.BaseVertexLocation + i]
                     /\ geo.VertexBufferCPU[sm.BaseVertexLocation + i].Pos
                          = mesh.Vertices[i].Position
                /\ \A k \in 1..sm.IndexCount :
                     /\ sm.StartIndexLocation + k \in DOMAIN geo.IndexBufferCPU
                     /\ geo.IndexBufferCPU[sm.StartIndexLocation + k] = GetIndices16(mesh)[k]

MaxObjCount == 5

\* C21: Object descriptor indexing.  In the castle application, once the views
\* exist, for every frame resource index f and every render item with constant
\* index i the heap index f * (item count) + i that DrawRenderItems binds holds
\* the view created for element i of frame resource f's object constant buffer;
\* the index is below (item count) * gNumFrameResources, differs from every pass
\* descriptor index (item count) * gNumFrameResources + f, at which the pass view
\* of f lies, and two different pairs (f, i) have different heap indices.  The
\* draw calls recorded by a Draw bind, for each item, the view of the cell that
\* UpdateObjectCBs writes for that item in the current frame resource.  The
\* same holds of the views built for any number of items up to MaxObjCount.
C21_ObjectDescriptorIndexing ==
    (app = "castle" /\ mCbvHeap # <<>>) =>
        LET objCount == Len(mRitemLayer.Opaque)
            Idx(f, k) == f * objCount + mAllRitems[k].ObjCBIndex
        IN  /\ \A f \in Slots, k \in DOMAIN mAllRitems :
                 /\ Idx(f, k) \in DOMAIN mCbvHeap
                 /\ mCbvHeap[Idx(f, k)] = [ Buffer |-> "ObjectCB", Frame |-> f,
                                            Element |-> mAllRitems[k].ObjCBIndex ]
                 /\ mAllRitems[k].ObjCBIndex \in DOMAIN mFrameResources[f].ObjectCB
                 /\ Idx(f, k) < objCount * gNumFrameResources
                 /\ \A g \in Slots : Idx(f, k) # objCount * gNumFrameResources + g
                 /\ \A g \in Slots, j \in DOMAIN mAllRitems :
                      Idx(f, k) = Idx(g, j) => (f = g /\ k = j)
            /\ \A f \in Slots :
                 mCbvHeap[objCount * gNumFrameResources + f]
                    = [ Buffer |-> "PassCB", Frame |-> f, Element |-> 0 ]
            /\ \A n \in 1..MaxObjCount : \A f \in Slots, i \in 0..(n - 1) :
                 Castle_BuildConstantBufferViews(Castle_BuildDescriptorHeaps(n), n)[f * n + i]
                    = [ Buffer |-> "ObjectCB", Frame |-> f, Element |-> i ]
            /\ (pc = "idle" /\ mCommandList # <<>>) =>
                 /\ mCurrFrameResource = mCurrFrameResourceIndex
                 /\ \A n \in DOMAIN mCommandList :
                      mCbvHeap[mCommandList[n].cbvIndex]
                         = [ Buffer |-> "ObjectCB", Frame |-> mCurrFrameResourceIndex,
                             Element |-> mAllRitems[ItemIndex(mAllRitems,
                                                     mCommandList[n].Item)].ObjCBIndex ]

\* A frame of the castle application drawn from the last frame resource of the
\* ring: the item with the highest constant index binds the last object
\* descriptor, the one just below the pass descriptors.
C21_Witness ==
    /\ app = "castle"
    /\ pc = "idle"
    /\ mCurrFrameResourceIndex = gNumFrameResources - 1
    /\ \E n \in DOMAIN mCommandList :
         mCommandList[n].cbvIndex = Castle_PassCbvOffset(Len(mRitemLayer.Opaque)) - 1

\* C22: Constant-slot indices and array sizes agree.  After scene assembly the
\* render items' ObjCBIndex values are pairwise distinct and are exactly
\* 0..(item count - 1), the materials' MatCBIndex values are pairwise distinct
\* and are exactly 0..(material count - 1), every frame resource's object array
\* has exactly (item count) entries and its material array (material count)
\* entries; every cell a recorded draw call addresses lies inside its array.
C22_ConstantSlotsAgree ==
    mFrameResources # <<>> =>
        LET n == Len(mAllRitems)
            m == Cardinality(DOMAIN mMaterials)
        IN  /\ \A k, j \in DOMAIN mAllRitems :
                 mAllRitems[k].ObjCBIndex = mAllRitems[j].ObjCBIndex => k = j
            /\ { mAllRitems[k].ObjCBIndex : k \in DOMAIN mAllRitems } = 0..(n - 1)
            /\ \A a, b \in DOMAIN mMaterials :
                 mMaterials[a].MatCBIndex = mMaterials[b].MatCBIndex => a = b
            /\ { mMaterials[a].MatCBIndex : a \in DOMAIN mMaterials } = 0..(m - 1)
            /\ \A f \in Slots :
                 /\ DOMAIN mFrameResources[f].ObjectCB = 0..(n - 1)
                 /\ DOMAIN mFrameResources[f].MaterialCB = 0..(m - 1)
            /\ app = "tree" =>
                 \A c \in DOMAIN mCommandList :
                    /\ mCommandList[c].objCB[2] \in DOMAIN mFrameResources[mCommandList[c].objCB[1]].ObjectCB
                    /\ mCommandList[c].matCB[2] \in DOMAIN mFrameResources[mCommandList[c].matCB[1]].MaterialCB

\* The billboard application after an Update: the first element of mAllRitems
\* is not the item with constant index 0, and the last cell of the current
\* frame resource's object array and of its material array have been written.
C22_Witness ==
    /\ app = "tree"
    /\ pc = "draw"
    /\ mAllRitems[1].ObjCBIndex # 0
    /\ mFrameResources[mCurrFrameResource].ObjectCB[Len(mAllRitems) - 1] # Unwritten
    /\ mFrameResources[mCurrFrameResource].MaterialCB[Cardinality(DOMAIN mMaterials) - 1] # Unwritten

\* C23: Effect of the wave update.  The Update of a frame of the billboard
\* application writes every wave vertex of the new simulation state into the
\* current frame resource's dynamic vertex buffer and points the water
\* geometry's vertex buffer handle to that buffer; the dynamic vertex buffers of
\* the other frame resources and all geometries (the water geometry's index
\* buffer and submesh table, land, box group, tree sprites) stay as they were.
C23_WaveUpdateEffect ==
    [][(app = "tree" /\ pc = "gate" /\ pc' = "draw") =>
         /\ mWaves'.Steps = mWaves.Steps + 1
         /\ DOMAIN mFrameResources'[mCurrFrameResource].WavesVB
              = 0..(Waves_VertexCount(mWaves') - 1)
         /\ \A i \in 0..(Waves_VertexCount(mWaves') - 1) :
              mFrameResources'[mCurrFrameResource].WavesVB[i]
                 = [ Pos |-> <<"wave", mWaves'.Steps, mWaves'.Disturbs, i>>,
                     Normal |-> <<"waveN", mWaves'.Steps, mWaves'.Disturbs, i>> ]
         /\ waterGeoVB' = mCurrFrameResource
         /\ \A f \in Slots \ { mCurrFrameResource } :
              mFrameResources'[f].WavesVB = mFrameResources[f].WavesVB
         /\ mGeometries' = mGeometries
         /\ mCurrFrameResource' = mCurrFrameResource]_vars

\* After the second Update of the billboard application: the current frame
\* resource holds the vertices of the second simulation step, the frame
\* resource before it still those of the first, the third has not been written.
C23_Witness ==
    /\ app = "tree"
    /\ pc = "draw"
    /\ mWaves.Steps = 2
    /\ mFrameResources[2].WavesVB[0].Pos[2] = 2
    /\ mFrameResources[1].WavesVB[0].Pos[2] = 1
    /\ mFrameResources[0].WavesVB[0] = Unwritten
    /\ waterGeoVB = 2

\* C24: One draw per item.  The draw calls recorded by a frame's Draw are as
\* many as there are render items, and for each render item exactly one of them
\* is for that item: a single instance drawn with the item's own index count,
\* start index and base vertex.
C24_OneDrawPerItem ==
    mCurrentFence > 0 =>
        /\ Len(mCommandList) = Len(mAllRitems)
        /\ \A k \in DOMAIN mAllRitems :
             /\ Cardinality({ c \in DOMAIN mCommandList :
                                mCommandList[c].Item = mAllRitems[k].Name }) = 1
             /\ \A c \in DOMAIN mCommandList :
                  mCommandList[c].Item = mAllRitems[k].Name =>
                     /\ mCommandList[c].IndexCount = mAllRitems[k].IndexCount
                     /\ mCommandList[c].InstanceCount = 1
                     /\ mCommandList[c].StartIndexLocation = mAllRitems[k].StartIndexLocation
                     /\ mCommandList[c].BaseVertexLocation = mAllRitems[k].BaseVertexLocation

\* A frame of the billboard application has been drawn: five draw calls, among
\* them two of the alpha-tested layer that start at different indices of the
\* box group.
C24_Witness ==
    /\ app = "tree"
    /\ pc = "idle"
    /\ mCurrentFence > 1
    /\ Len(mCommandList) = 5
    /\ \E c, d \in DOMAIN mCommandList :
         /\ mCommandList[c].Layer = "AlphaTested"
         /\ mCommandList[d].Layer = "AlphaTested"
         /\ mCommandList[c].StartIndexLocation # mCommandList[d].StartIndexLocation

\* C25: Wave disturbance cadence.  Over frames of any length (total time never
\* decreasing) an Update generates at most one disturbance, and generates one
\* exactly when the total time is at least 0.25 s ahead of the time base; the
\* time base is 0.25 s times the number of disturbances, never exceeds the total
\* time, and the number of disturbances never exceeds floor(T / 0.25 s).  After
\* a long frame the lag of the time base shrinks by 0.25 s less the frame's
\* length with each following frame until it is below 0.25 s.
C25_WaveDisturbanceCadence ==
    /\ [](app = "tree" /\ pc = "idle" =>
            /\ t_base = 250 * mWaves.Disturbs
            /\ t_base <= mTimer.TotalTime
            /\ mWaves.Disturbs <= mTimer.TotalTime \div 250)
    /\ [][(app = "tree" /\ pc = "idle" /\ pc' = "idle"
          /\ mCurrFrameResourceIndex' # mCurrFrameResourceIndex) =>
            /\ mTimer'.TotalTime >= mTimer.TotalTime
            /\ mWaves'.Disturbs \in { mWaves.Disturbs, mWaves.Disturbs + 1 }
            /\ (mWaves'.Disturbs = mWaves.Disturbs + 1)
                  <=> (mTimer'.TotalTime - t_base >= 250)
            /\ (mTimer'.TotalTime - t_base >= 250) =>
                  mTimer'.TotalTime - t_base'
                     = (mTimer.TotalTime - t_base) + mTimer'.DeltaTime - 250]_vars

\* A frame of 0.6 s followed by a frame of no length: the second frame makes up
\* a missed disturbance, the time base is at 0.5 s and within 0.25 s of the
\* total time.
C25_Witness ==
    /\ app = "tree"
    /\ pc = "idle"
    /\ mWaves.Steps = 2
    /\ mWaves.Disturbs = 2
    /\ mTimer = [ TotalTime |-> 600, DeltaTime |-> 0 ]
    /\ t_base = 500

\* C26: Polar-angle clamp.  After any sequence of mouse messages the polar angle
\* mPhi is within [0.1, pi - 0.1]; the azimuth mTheta is the sum of its previous
\* value and the angle of the horizontal delta of a left-button move, neither
\* clamped nor wrapped, and is left alone by every other mouse message.
C26_PolarAngleClamp ==
    /\ mPhi >= AngleFx \div 10
    /\ mPhi <= Pi - AngleFx \div 10
    /\ LET e == hist.mouse
       IN  /\ (e.kind = "move" /\ "MK_LBUTTON" \in e.btnState) =>
                /\ mTheta = e.mTheta + QuarterDegrees(e.dx)
                /\ mPhi = Clamp(e.mPhi + QuarterDegrees(e.dy),
                                AngleFx \div 10, Pi - AngleFx \div 10)
           /\ (e.kind = "down" \/ (e.kind = "move" /\ "MK_LBUTTON" \notin e.btnState)) =>
                mTheta = e.mTheta /\ mPhi = e.mPhi

\* A left-button drag of 800 by 600 pixels after a button press: the azimuth has
\* gone past a full turn and the polar angle, carried past the upper bound by
\* the delta, is at the bound.
C26_Witness ==
    /\ hist.mouse.kind = "move"
    /\ "MK_LBUTTON" \in hist.mouse.btnState
    /\ hist.mouse.dx = 800
    /\ hist.mouse.dy = 600
    /\ hist.mouse.mPhi + QuarterDegrees(600) > Pi - AngleFx \div 10
    /\ mPhi = Pi - AngleFx \div 10
    /\ mTheta > 2 * Pi

\* C27: Mouse drag frame conditions.  A mouse move with the left button held
\* changes only mTheta and mPhi and leaves mRadius as it was, also when the right
\* button is held as well; a move with only the right button held changes only
\* mRadius; a move with no button held changes no camera parameter; every move
\* stores the position it carries in mLastMousePos.  No mouse message changes
\* anything but the camera.
C27_MouseDragFrameConditions ==
    [][(hist'.mouse.n = hist.mouse.n + 1 /\ hist'.mouse.kind = "move") =>
         LET b == hist'.mouse.btnState
         IN  /\ "MK_LBUTTON" \in b => mRadius' = mRadius
             /\ b = { "MK_RBUTTON" } => (mTheta' = mTheta /\ mPhi' = mPhi)
             /\ b = {} => (mTheta' = mTheta /\ mPhi' = mPhi /\ mRadius' = mRadius)
             /\ mLastMousePos' # Indeterminate
             /\ mLastMousePos'.x \in MouseXs
             /\ mLastMousePos'.y \in MouseYs
             /\ (mLastMousePos # Indeterminate /\ b # {}) =>
                  /\ mLastMousePos'.x = mLastMousePos.x + hist'.mouse.dx
                  /\ mLastMousePos'.y = mLastMousePos.y + hist'.mouse.dy
             /\ UNCHANGED <<mAllRitems, mMaterials, mFrameResources, mCurrFrameResourceIndex,
                            mCurrentFence, mIsWireframe, pc>>]_vars

\* A move with both buttons held, after a press, over a distance in both
\* directions: the angles have changed, the radius has not.
C27_Witness ==
    /\ hist.mouse.kind = "move"
    /\ hist.mouse.btnState = { "MK_LBUTTON", "MK_RBUTTON" }
    /\ hist.mouse.n > 1
    /\ hist.mouse.dx = 800
    /\ hist.mouse.dy = -600
    /\ mTheta # hist.mouse.mTheta
    /\ mPhi # hist.mouse.mPhi
    /\ mRadius = hist.mouse.mRadius
    /\ mLastMousePos = [ x |-> 800, y |-> 0 ]

\* C28: Wireframe toggle.  In the castle application every draw call of a frame
\* is recorded under the wireframe pipeline state exactly when the '1' key was
\* held at the keyboard poll of that frame's Update, and under the solid one
\* otherwise, whatever the key was at earlier polls.  Apart from the pipeline
\* state nothing depends on the flag: the poll changes no render item, frame
\* resource or fence value and advances the ring as always; the rest of Update
\* and Draw leave the flag alone, Update writes the constants computed from the
\* render items, and the draw calls of Draw, their pipeline state set aside, and
\* the fence stamp are those of a solid frame.
C28_WireframeToggle ==
    /\ [](app = "castle" /\ hist.poll # <<>> =>
            /\ mIsWireframe = hist.poll[Len(hist.poll)]
            /\ (pc = "idle" /\ mCommandList # <<>>) =>
                  \A c \in DOMAIN mCommandList :
                     mCommandList[c].PSO = IF hist.poll[Len(hist.poll)]
                                           THEN "opaque_wireframe" ELSE "opaque")
    /\ [][app = "castle" =>
            /\ (pc = "idle" /\ pc' = "gate") =>
                  /\ UNCHANGED <<mAllRitems, mFrameResources, mCurrentFence, mFence,
                                 gpuQueue, mCommandList>>
                  /\ mCurrFrameResourceIndex' = NextFrameResourceIndex(mCurrFrameResourceIndex)
            /\ (pc = "gate" /\ pc' = "draw") =>
                  /\ UNCHANGED <<mIsWireframe, mCurrFrameResourceIndex, mCurrentFence>>
                  /\ mAllRitems' = Castle_UpdateObjectCBs(mAllRitems,
                        mFrameResources[mCurrFrameResource].ObjectCB).items
                  /\ mFrameResources'[mCurrFrameResource].ObjectCB =
                        Castle_UpdateObjectCBs(mAllRitems,
                           mFrameResources[mCurrFrameResource].ObjectCB).cb
            /\ (pc = "draw" /\ pc' = "idle") =>
                  /\ UNCHANGED <<mIsWireframe, mCurrFrameResourceIndex, mAllRitems>>
                  /\ mCurrentFence' = mCurrentFence + 1
                  /\ mFrameResources' =
                        [ mFrameResources EXCEPT ![mCurrFrameResource].Fence = mCurrentFence + 1 ]
                  /\ [ c \in DOMAIN mCommandList' |->
                         [ mCommandList'[c] EXCEPT !.PSO = "opaque" ] ]
                       = Castle_DrawRenderItems(mRitemLayer.Opaque, mAllRitems,
                            mCurrFrameResourceIndex, Len(mRitemLayer.Opaque), "opaque")]_vars

\* The key was held at the poll of the previous frame and released at the poll
\* of the frame just drawn: that frame is drawn solid.
C28_Witness ==
    /\ app = "castle"
    /\ pc = "idle"
    /\ mCurrentFence >= 2
    /\ hist.poll = <<TRUE, FALSE>>
    /\ \A c \in DOMAIN mCommandList : mCommandList[c].PSO = "opaque"
    /\ mCommandList # <<>>

(***************************************************************************)
(* Texture scroll of the water material under arbitrary frame times.  The  *)
(* timer is supplied from outside the application class, so the frame      *)
(* delta is an input; ScrollDeltaTimes holds a zero delta, an ordinary     *)
(* frame, and stalls of ten seconds and more.  Each step is one Update of  *)
(* the second application with the fence gate open (nothing was drawn, so  *)
(* every slot's fence is 0).                                               *)
(***************************************************************************)
MaxScrollFrames == 4

ScrollDeltaTimes == { 0, 250, 10000, 25000 }

Scroll_Frame ==
    /\ pc = "idle"
    /\ app = "tree"
    /\ mWaves.Steps < MaxScrollFrames
    /\ \E dt \in ScrollDeltaTimes :
         mTimer' = [ TotalTime |-> mTimer.TotalTime + dt, DeltaTime |-> dt ]
    /\ mCurrFrameResourceIndex' = NextFrameResourceIndex(mCurrFrameResourceIndex)
    /\ mCurrFrameResource' = mCurrFrameResourceIndex'
    /\ GateOpen(mFrameResources[mCurrFrameResource'], mFence)
    /\ LET fr == mFrameResources[mCurrFrameResource']
           animated == Tree_AnimateMaterials(mMaterials, mTimer'.DeltaTime)
           obj == Tree_UpdateObjectCBs(mAllRitems, fr.ObjectCB)
           mat == Tree_UpdateMaterialCBs(animated, fr.MaterialCB)
           wav == Tree_UpdateWaves(mWaves, t_base, mTimer', fr.WavesVB)
       IN  /\ mAllRitems' = obj.items
           /\ mMaterials' = mat.mats
           /\ mFrameResources' =
                [ mFrameResources EXCEPT ![mCurrFrameResource'] =
                    [ fr EXCEPT !.ObjectCB = obj.cb, !.MaterialCB = mat.cb,
                                !.PassCB = UpdateMainPassCB(mTimer'), !.WavesVB = wav.vb ] ]
           /\ mWaves' = wav.waves
           /\ t_base' = wav.t_base
           /\ waterGeoVB' = mCurrFrameResource'
           /\ hist' = HistAfterUpdate(hist, mCurrFrameResource', mAllRitems, obj.copied,
                                      mMaterials, animated, mat.copied, mCurrFrameResource')
    /\ UNCHANGED <<cam, apiFailure, gpuHung, mCbvHeap, mIsWireframe,
                   app, pc, md3dDevice, mRitemLayer, mCurrentFence, mFence, gpuQueue,
                   mCommandList, meshData, mGeometries, edits>>

NextScroll ==
    \/ Tree_Initialize
    \/ Scroll_Frame

SpecScroll == Init /\ [][NextScroll]_vars

WaterScroll(mats) ==
    [ tu |-> Entry(mats["water"].MatTransform, 3, 0),
      tv |-> Entry(mats["water"].MatTransform, 3, 1) ]

(***************************************************************************)
(* C29  Water texture scroll stays wrapped: after every frame, whatever    *)
(* the non-negative frame delta time was, both texture-scroll offsets of   *)
(* the water material lie in the range [0, 1).                             *)
(***************************************************************************)
C29_WaterScrollWrapped ==
    (app = "tree" /\ pc = "idle")
        => /\ 0 <= WaterScroll(mMaterials).tu /\ WaterScroll(mMaterials).tu < Fx
           /\ 0 <= WaterScroll(mMaterials).tv /\ WaterScroll(mMaterials).tv < Fx

(***************************************************************************)
(* C30  Vertex attributes come from the right shape: whatever the shape    *)
(* sizes, every vertex that BuildBoxGeometry stores in the concatenated    *)
(* vertex buffer takes its position, normal and texture coordinate from    *)
(* the same source vertex of one shape, and no copy loop reads a shape's   *)
(* vertex array beyond its size (no stored attribute is an out-of-range    *)
(* value).                                                                 *)
(***************************************************************************)
C30_VertexAttributesFromRightShape ==
    "boxGeo" \in DOMAIN mGeometries =>
        \A k \in DOMAIN mGeometries["boxGeo"].VertexBufferCPU :
            LET v == mGeometries["boxGeo"].VertexBufferCPU[k]
            IN  /\ DOMAIN v = { "Pos", "Normal", "TexC" }
                /\ \E s \in DOMAIN meshData.shapes :
                     \E i \in 1..Len(meshData.shapes[s].Vertices) :
                        /\ v.Pos = meshData.shapes[s].Vertices[i].Position
                        /\ v.Normal = meshData.shapes[s].Vertices[i].Normal
                        /\ v.TexC = meshData.shapes[s].Vertices[i].TexC

====
